---------------------------- MODULE Spec2Model ----------------------------
(***************************************************************************)
(* python-blockstream: the framed binary protocol codec (blockstream.py,   *)
(* p_posi.py, p_wave.py) and the reader threads built on it                *)
(* (bs_reader.py: BS3SingleProtocolReader, BS3MultiProtocolReader).        *)
(*                                                                         *)
(* Byte strings are sequences of naturals below 256.  A decoder returns a  *)
(* record [ok, v, exc]: ok = FALSE stands for the exception exc that the   *)
(* Python code raises (ValueError, TypeError, struct.error), which nothing *)
(* in the reader threads catches.                                          *)
(***************************************************************************)
EXTENDS Integers, Sequences, FiniteSets, TLC

(***************************************************************************)
(* Bounds of the model.                                                    *)
(***************************************************************************)
\* frames the transport delivers in one behaviour (all readers together)
MaxFrames == 2
\* stop() calls issued in one behaviour
MaxStops == 2
\* items the consumer of a queue takes in one behaviour
MaxGets == 1
\* add_listener() calls issued in one behaviour
MaxAdds == 2

(***************************************************************************)
(* struct: little-endian packing without padding ('<').                    *)
(***************************************************************************)
Min(a, b) == IF a < b THEN a ELSE b

RECURSIVE SumSeq(_)
SumSeq(s) == IF s = <<>> THEN 0 ELSE Head(s) + SumSeq(Tail(s))

\* struct.calcsize of a '<' format given as the sequence of its field widths
calcsize(signature) == SumSeq(signature)

\* data[a:b] of Python: 0-based, end exclusive, cut at the end of the string
Slice(data, a, b) == SubSeq(data, a + 1, Min(b, Len(data)))

\* the value of the unsigned little-endian field bytes[i..]
RECURSIVE LEFrom(_, _)
LEFrom(bytes, i) ==
    IF i > Len(bytes) THEN 0 ELSE bytes[i] + 256 * LEFrom(bytes, i + 1)

\* the value of an unsigned little-endian field
LE(bytes) == LEFrom(bytes, 1)

\* the w bytes of the unsigned little-endian field holding n
RECURSIVE U(_, _)
U(n, w) == IF w = 0 THEN <<>> ELSE <<n % 256>> \o U(n \div 256, w - 1)

\* the fields of struct.unpack(signature, data) as byte strings, field by field;
\* the caller checks Len(data) = calcsize(signature), as struct.unpack does
Fields(signature, data) ==
    [i \in 1..Len(signature) |->
        SubSeq(data, calcsize(SubSeq(signature, 1, i - 1)) + 1,
                     calcsize(SubSeq(signature, 1, i)))]

Raise(e) == [ok |-> FALSE, v |-> <<>>, exc |-> e]
Ok(x) == [ok |-> TRUE, v |-> x, exc |-> ""]

\* struct.unpack: struct.error unless the string has exactly the format's size
unpack(signature, data) ==
    IF Len(data) # calcsize(signature) THEN Raise("struct.error") ELSE Ok(Fields(signature, data))

(***************************************************************************)
(* Tier 1: BS3DataBlockHeader.                                             *)
(***************************************************************************)
\* '<BIHHQqB4sQ'
BS3DataBlockHeader_signature == <<1, 4, 2, 2, 8, 8, 1, 4, 8>>
BS3DataBlockHeader_version == 3
BS3DataBlockHeader_type_code == 1
BS3DataBlockHeader_header_size == 31

\* BS3BaseHeader.__len__ for the frame header
BS3DataBlockHeader_len == calcsize(BS3DataBlockHeader_signature)

BS3DataBlockHeader_from_data(data) ==
    IF Len(data) < BS3DataBlockHeader_len THEN Raise("ValueError")
    ELSE LET f == Fields(BS3DataBlockHeader_signature,
                         SubSeq(data, 1, BS3DataBlockHeader_len))
         IN  IF LE(f[1]) # BS3DataBlockHeader_version
                \/ LE(f[7]) # 1
             THEN Raise("ValueError")
             ELSE Ok([block_size  |-> LE(f[2]),
                      writer_id   |-> LE(f[4]),
                      block_index |-> LE(f[5]),
                      time_stamp  |-> LE(f[6]),
                      block_code  |-> f[8]])

(***************************************************************************)
(* Python values whose type the code tests or relies on.                   *)
(***************************************************************************)
PyStr(bytes) == [t |-> "str", b |-> bytes, block_type |-> 0, l |-> <<>>]
PyHdr(btp) == [t |-> "hdr", b |-> <<>>, block_type |-> btp, l |-> <<>>]
PyList(lst) == [t |-> "list", b |-> <<>>, block_type |-> 0, l |-> lst]

(***************************************************************************)
(* Tier 2 headers: version u8, block type u8 ('<BB').                      *)
(***************************************************************************)
Tier2_signature == <<1, 1>>
BS3SortBlockHeader_version == 1
BS3PosiBlockHeader_version == 1

\* the from_data of a tier 2 header class whose version is `version`
Tier2Header_from_data(version, data) ==
    IF Len(data) < calcsize(Tier2_signature) THEN Raise("ValueError")
    ELSE LET f == Fields(Tier2_signature, SubSeq(data, 1, calcsize(Tier2_signature)))
         IN  IF LE(f[1]) # version THEN Raise("ValueError") ELSE Ok(PyHdr(LE(f[2])))

BS3SortBlockHeader_from_data(data) ==
    Tier2Header_from_data(BS3SortBlockHeader_version, data)

BS3PosiBlockHeader_from_data(data) ==
    Tier2Header_from_data(BS3PosiBlockHeader_version, data)

(***************************************************************************)
(* Decoded blocks.  BS3BaseBlock (imported by bs_reader.py, p_posi.py and  *)
(* p_wave.py) keeps the tier 2 header as `header`; the protocol code of    *)
(* the class is `code`.                                                    *)
(***************************************************************************)
BS3BaseBlock(code, header, group_lst, event_lst) ==
    [kind |-> "block", code |-> code, block_type |-> header.block_type,
     num |-> 0, group_lst |-> group_lst, event_lst |-> event_lst]

\* a numpy float32 buffer: one 4 byte string per float
frombuffer(buf) ==
    [i \in 1..(Len(buf) \div 4) |-> SubSeq(buf, 4 * i - 3, 4 * i)]

\* flat.reshape(rows, cols)
reshape(flat, rows, cols) ==
    [i \in 1..rows |-> [j \in 1..cols |-> flat[(i - 1) * cols + j]]]

\* m.T of a rows x cols matrix
transpose(m, rows, cols) ==
    [j \in 1..cols |-> [i \in 1..rows |-> m[i][j]]]

(***************************************************************************)
(* SORT (p_wave.py holds the SORT classes and the registry entry PROT).    *)
(***************************************************************************)
\* the unit loop of BS3SortSetupBlock.from_data: n units from data[at:]
RECURSIVE SortUnits(_, _, _, _, _, _)
SortUnits(data, at, n, tf, nc, acc) ==
    IF n = 0 THEN Ok(<<acc, at>>)
    ELSE LET k    == tf * nc * 4
             fb   == Slice(data, at, at + k)
             tb   == Slice(data, at + k, at + 2 * k)
             tail == unpack(<<4, 1, 2, 2>>, Slice(data, at + 2 * k, at + 2 * k + 9))
         IN  IF Len(fb) # k \/ Len(tb) # k THEN Raise("ValueError")
             ELSE IF ~tail.ok THEN Raise(tail.exc)
             ELSE SortUnits(data, at + 2 * k + 9, n - 1, tf, nc,
                            Append(acc, <<transpose(reshape(frombuffer(fb), tf, nc), tf, nc),
                                          transpose(reshape(frombuffer(tb), tf, nc), tf, nc),
                                          tail.v[1], LE(tail.v[2]),
                                          LE(tail.v[3]), LE(tail.v[4])>>))

\* the group loop of BS3SortSetupBlock.from_data
RECURSIVE SortGroups(_, _, _, _)
SortGroups(data, at, n, acc) ==
    IF n = 0 THEN Ok(acc)
    ELSE LET h == unpack(<<2, 2, 2, 2>>, Slice(data, at, at + 8))
         IN  IF ~h.ok THEN Raise(h.exc)
             ELSE LET nc    == LE(h.v[2])
                      tf    == LE(h.v[3])
                      tf_nc == tf * nc
                      cb    == Slice(data, at + 8, at + 8 + tf_nc * tf_nc * 4)
                      at2   == at + 8 + tf_nc * tf_nc * 4
                      nu    == unpack(<<4>>, Slice(data, at2, at2 + 4))
                  IN  IF Len(cb) # tf_nc * tf_nc * 4 THEN Raise("ValueError")
                      ELSE IF ~nu.ok THEN Raise(nu.exc)
                      ELSE LET us == SortUnits(data, at2 + 4, LE(nu.v[1]), tf, nc, <<>>)
                           IN  IF ~us.ok THEN Raise(us.exc)
                               ELSE SortGroups(data, us.v[2], n - 1,
                                               Append(acc, <<LE(h.v[1]), nc, tf, LE(h.v[4]),
                                                             reshape(frombuffer(cb), tf_nc, tf_nc),
                                                             us.v[1]>>))

BS3SortSetupBlock_from_data(header, data) ==
    IF data.t # "str" THEN Raise("TypeError")
    ELSE LET ng == unpack(<<2>>, Slice(data.b, 0, 2))
         IN  IF ~ng.ok THEN Raise(ng.exc)
             ELSE LET gs == SortGroups(data.b, 2, LE(ng.v[1]), <<>>)
                  IN  IF ~gs.ok THEN Raise(gs.exc)
                      ELSE Ok(BS3BaseBlock("SORT", header, gs.v, <<>>))

\* the event loop of BS3SortDataBlock.from_data: '<HIQHHH', 20 bytes a record
RECURSIVE SortEvents(_, _, _, _)
SortEvents(data, at, n, acc) ==
    IF n = 0 THEN Ok(acc)
    ELSE LET ev == unpack(<<2, 4, 8, 2, 2, 2>>, Slice(data, at, at + 20))
         IN  IF ~ev.ok THEN Raise(ev.exc)
             ELSE SortEvents(data, at + 20, n - 1,
                             Append(acc, <<LE(ev.v[1]), LE(ev.v[2]), LE(ev.v[3]),
                                           LE(ev.v[4]), LE(ev.v[5]), LE(ev.v[6])>>))

BS3SortDataBlock_from_data(header, data) ==
    IF data.t # "str" THEN Raise("TypeError")
    ELSE LET ne == unpack(<<4>>, Slice(data.b, 0, 4))
         IN  IF ~ne.ok THEN Raise(ne.exc)
             ELSE LET es == SortEvents(data.b, 4, LE(ne.v[1]), <<>>)
                  IN  IF ~es.ok THEN Raise(es.exc)
                      ELSE Ok(BS3BaseBlock("SORT", header, <<>>, es.v))

(***************************************************************************)
(* POSI (p_posi.py).  The parameter order is the one of the source: the    *)
(* first positional argument of a call binds to the first parameter.       *)
(***************************************************************************)
\* BS3PosiSetupBlock.__init__(self, group_lst, header=None): list(group_lst)
\* raises TypeError for a header object
BS3PosiSetupBlock_init(group_lst, header) ==
    IF group_lst.t # "list" THEN Raise("TypeError")
    ELSE Ok(BS3BaseBlock("POSI", IF header.t = "hdr" THEN header ELSE PyHdr(0),
                         group_lst.l, <<>>))

RECURSIVE PosiGroups(_, _, _, _)
PosiGroups(data, at, n, acc) ==
    IF n = 0 THEN Ok(acc)
    ELSE LET g == unpack(<<2>>, Slice(data, at, at + 2))
         IN  IF ~g.ok THEN Raise(g.exc)
             ELSE PosiGroups(data, at + 2, n - 1, Append(acc, <<LE(g.v[1])>>))

\* from_data(header, data) ends in BS3PosiSetupBlock(header, group_lst)
BS3PosiSetupBlock_from_data(header, data) ==
    IF data.t # "str" THEN Raise("TypeError")
    ELSE LET ng == unpack(<<2>>, Slice(data.b, 0, 2))
         IN  IF ~ng.ok THEN Raise(ng.exc)
             ELSE LET gs == PosiGroups(data.b, 2, LE(ng.v[1]), <<>>)
                  IN  IF ~gs.ok THEN Raise(gs.exc)
                      ELSE BS3PosiSetupBlock_init(header, PyList(gs.v))

RECURSIVE PosiPositions(_, _, _, _)
PosiPositions(data, at, n, acc) ==
    IF n = 0 THEN Ok(acc)
    ELSE LET g == unpack(<<2, 8>>, Slice(data, at, at + 10))
         IN  IF ~g.ok THEN Raise(g.exc)
             ELSE PosiPositions(data, at + 10, n - 1,
                                Append(acc, <<LE(g.v[1]), LE(g.v[2])>>))

\* BS3PosiDataBlock.from_data(data, header=None) and
\* BS3PosiSteerBlock.from_data(data, header=None): the same body
PosiPairs_from_data(data, header) ==
    IF data.t # "str" THEN Raise("TypeError")
    ELSE LET ng == unpack(<<2>>, Slice(data.b, 0, 2))
         IN  IF ~ng.ok THEN Raise(ng.exc)
             ELSE LET gs == PosiPositions(data.b, 2, LE(ng.v[1]), <<>>)
                  IN  IF ~gs.ok THEN Raise(gs.exc)
                      ELSE Ok(BS3BaseBlock("POSI", header, <<>>, gs.v))

BS3PosiDataBlock_from_data(data, header) == PosiPairs_from_data(data, header)

BS3PosiSteerBlock_from_data(data, header) == PosiPairs_from_data(data, header)

(***************************************************************************)
(* The static registry PROTOCOLS of bs_reader.py: protocol -> PROT.        *)
(***************************************************************************)
\* the protocol codes a reader is bound to in this model
Protocols == {"POSI", "SORT"}

\* the 4 byte wire form of a protocol code
CodeBytes(p) ==
    CASE p = "POSI" -> <<80, 79, 83, 73>>
      [] p = "SORT" -> <<83, 79, 82, 84>>
      [] p = "WOOT" -> <<87, 79, 79, 84>>

\* PROTOCOLS[p]['H'].from_data
PROT_H_from_data(p, data) ==
    CASE p = "POSI" -> BS3PosiBlockHeader_from_data(data)
      [] p = "SORT" -> BS3SortBlockHeader_from_data(data)

\* the integer keys of PROTOCOLS[p]
PROT_block_types(p) ==
    CASE p = "POSI" -> {0, 1, 2}
      [] p = "SORT" -> {0, 1}

\* PROTOCOLS[p][block_type].from_data(a1, a2), the arguments in call order
PROT_blk_from_data(p, block_type, a1, a2) ==
    CASE p = "POSI" /\ block_type = 0 -> BS3PosiSetupBlock_from_data(a1, a2)
      [] p = "POSI" /\ block_type = 1 -> BS3PosiDataBlock_from_data(a1, a2)
      [] p = "POSI" /\ block_type = 2 -> BS3PosiSteerBlock_from_data(a1, a2)
      [] p = "SORT" /\ block_type = 0 -> BS3SortSetupBlock_from_data(a1, a2)
      [] p = "SORT" /\ block_type = 1 -> BS3SortDataBlock_from_data(a1, a2)

(***************************************************************************)
(* Frames the writers of the transport may send (inputs of the model).     *)
(***************************************************************************)
\* the 38 bytes a writer sends for BS3DataBlockHeader.signature
WireHeader(ver, tcd, code, size) ==
    U(ver, 1) \o U(size, 4) \o U(BS3DataBlockHeader_header_size, 2) \o U(0, 2)
    \o U(0, 8) \o U(0, 8) \o U(tcd, 1) \o CodeBytes(code) \o U(0, 8)

\* a frame with a well-formed frame header and the given tier 2 bytes
WireFrame(code, tier2) ==
    WireHeader(BS3DataBlockHeader_version, BS3DataBlockHeader_type_code, code,
               BS3DataBlockHeader_len + Len(tier2)) \o tier2

WireSortEvent == U(0, 2) \o U(1, 4) \o U(2, 8) \o U(3, 2) \o U(4, 2) \o U(5, 2)
WireSortGroup(grp_idx) ==
    U(grp_idx, 2) \o U(1, 2) \o U(1, 2) \o U(0, 2) \o <<0, 0, 128, 63>> \o U(1, 4)
    \o <<0, 0, 0, 64>> \o <<0, 0, 64, 64>> \o <<0, 0, 128, 64>> \o U(1, 1)
    \o U(7, 2) \o U(8, 2)

F_undersized == <<3, 10, 0, 0, 0, 31, 0, 0, 0, 0>>
F_bad_version == WireHeader(2, 1, "SORT", 40) \o <<1, 1>>
F_bad_type_code == WireHeader(3, 0, "SORT", 40) \o <<1, 1>>
F_foreign == WireFrame("WOOT", <<1, 1>> \o U(0, 4))
F_sort_setup0 == WireFrame("SORT", <<1, 0>> \o U(0, 2))
F_sort_setup1 == WireFrame("SORT", <<1, 0>> \o U(1, 2) \o WireSortGroup(0))
F_sort_data1 == WireFrame("SORT", <<1, 1>> \o U(1, 4) \o WireSortEvent)
F_sort_unknown_type == WireFrame("SORT", <<1, 7>> \o U(0, 4))
F_sort_tier2_version == WireFrame("SORT", <<9, 1>> \o U(0, 4))
F_sort_tier2_short == WireFrame("SORT", <<1>>)
F_sort_payload_short == WireFrame("SORT", <<1, 1>> \o U(1, 4) \o <<0, 0, 1>>)
F_posi_setup == WireFrame("POSI", <<1, 0>> \o U(1, 2) \o U(3, 2))
F_posi_data == WireFrame("POSI", <<1, 1>> \o U(1, 2) \o U(3, 2) \o U(9, 8))
F_posi_steer == WireFrame("POSI", <<1, 2>> \o U(1, 2) \o U(3, 2) \o U(9, 8))
F_posi_unknown_type == WireFrame("POSI", <<1, 5>> \o U(0, 2))

\* frames that are malformed for every reader, or of no reader's protocol
FramesMalformed == {F_undersized, F_bad_version, F_bad_type_code, F_foreign}
FramesSort ==
    {F_sort_setup0, F_sort_setup1, F_sort_data1, F_sort_unknown_type,
     F_sort_tier2_version, F_sort_tier2_short, F_sort_payload_short}
FramesPosi == {F_posi_setup, F_posi_data, F_posi_steer, F_posi_unknown_type}

\* the frames sent while one reader bound to p runs: the malformed ones, the
\* frames of p, and one frame of the other protocol
FramesSingle(p) ==
    IF p = "SORT" THEN FramesMalformed \cup FramesSort \cup {F_posi_data}
                  ELSE FramesMalformed \cup FramesPosi \cup {F_sort_data1}

(***************************************************************************)
(* State.                                                                  *)
(***************************************************************************)
Threads == Protocols \cup {"multi"}
ListenerQueues == {"L1", "L2"}
Queues == {"Q", "data_q"} \cup ListenerQueues

VARIABLES
    pc,              \* thread -> position in run(); "none": no such object
    serving,         \* thread -> _serving
    is_shutdown,     \* thread -> _is_shutdown (an Event)
    is_initialised,  \* thread -> _is_initialised (an Event)
    out_q,           \* reader -> the queue passed as out_q
    rid,             \* reader -> _protocol[IDX_RID]; 0 is None
    bs_lib,          \* reader -> _bs_lib is not None
    car_data,        \* reader -> the frame read by the last readBlock
    handles,         \* transport: the reader handles that are open
    borrowed,        \* transport: the handles whose block is not released
    wire,            \* transport: the frames writers send in this behaviour
    q_log,           \* queue -> every item put on it so far, in order
    q_taken,         \* queue -> how many of them were taken by get()
    q_max,           \* queue -> maxsize (0: unbounded)
    protocol_ids,    \* multiplexer: _protocol_ids
    protocol_ref,    \* multiplexer: _protocol, key -> the list object it holds
    protocol_obj,    \* multiplexer: list object -> its two slots
    listeners,       \* multiplexer: _listeners, id -> queue
    req_q,           \* multiplexer: _req_q, the queues waiting for registration
    req_unfinished,  \* multiplexer: unfinished tasks of _req_q (put - task_done)
    m_i,             \* multiplexer: index of the loop that starts the readers
    m_puts,          \* multiplexer: the puts <<queue, item>> still to be done
                     \* by the worker, which waits in the first of them
    ad,              \* queue -> the add_listener(q) calls in each stage, and
                     \* those that have returned (done)
    n_adds,          \* add_listener() calls begun so far
    last_setup,      \* protocol -> the last setup block taken from _data_q
    sp_wait,         \* thread -> the stop() calls waiting on its event:
                     \* [pre: begun before start(), post: begun after it]
    n_stops,         \* stop() calls begun so far
    n_frames,        \* frames delivered so far
    n_gets,          \* items taken by the consumers so far
    n_got, n_rel, n_drop,   \* reader -> frames read, released, dropped
    crash,           \* thread -> the uncaught exception that ended it
    stop_ret,        \* thread -> a stop() begun after start() has returned
    bxpd,            \* the BS3Reader object: its fields, the position of its
                     \* thread and the add_listener call in progress
    arg,             \* the arguments of the call under test (<<>>: none)
    ret              \* what that call returned or raised (<<>>: not made yet)

reader_vars == <<out_q, rid, bs_lib, car_data>>
thread_vars == <<pc, serving, is_shutdown, is_initialised>>
transport_vars == <<handles, borrowed, wire>>
queue_vars == <<q_log, q_taken, q_max>>
stop_vars == <<sp_wait, n_stops>>
ghost_vars == <<n_frames, n_gets, n_got, n_rel, n_drop, crash, stop_ret>>
multi_vars == <<protocol_ids, protocol_ref, protocol_obj, listeners, req_q,
                req_unfinished, m_i, m_puts, ad, n_adds, last_setup>>
vars == <<reader_vars, thread_vars, transport_vars, queue_vars, stop_vars,
          ghost_vars, multi_vars, bxpd, arg, ret>>

(***************************************************************************)
(* Queue.Queue and the items the threads put on queues.                    *)
(***************************************************************************)
Item(kind, code, num) ==
    [kind |-> kind, code |-> code, block_type |-> 0, num |-> num,
     group_lst |-> <<>>, event_lst |-> <<>>]
NoneItem == Item("None", "", 0)
IntItem(n) == Item("int", "", n)
\* the tuple (protocol_id, reader id) of start_blockstream
RidItem(p, h) == Item("rid", p, h)

qsize(q) == Len(q_log[q]) - q_taken[q]
full(q) == q_max[q] > 0 /\ qsize(q) >= q_max[q]
Count(q, item) == Cardinality({i \in 1..Len(q_log[q]) : q_log[q][i] = item})

\* the handle startReader returns to a reader thread
Handle(r) == CASE r = "POSI" -> 1 [] r = "SORT" -> 2

(***************************************************************************)
(* BS3SingleProtocolReader.                                                *)
(***************************************************************************)
\* Thread.start(): run() begins in the new thread
R_start(r) ==
    /\ UNCHANGED multi_vars
    /\ pc[r] = "new"
    /\ pc["multi"] = "none"
    /\ pc' = [pc EXCEPT ![r] = "start_bs"]
    /\ UNCHANGED <<serving, is_shutdown, is_initialised, reader_vars,
                   transport_vars, queue_vars, stop_vars, ghost_vars,
                   bxpd, arg, ret>>

start_blockstream(r) ==
    /\ UNCHANGED multi_vars
    /\ pc[r] = "start_bs"
    /\ ~full(out_q[r])
    /\ bs_lib' = [bs_lib EXCEPT ![r] = TRUE]
    /\ handles' = handles \cup {Handle(r)}
    /\ rid' = [rid EXCEPT ![r] = Handle(r)]
    /\ q_log' = [q_log EXCEPT ![out_q[r]] = Append(@, RidItem(r, Handle(r)))]
    /\ is_initialised' = [is_initialised EXCEPT ![r] = TRUE]
    /\ pc' = [pc EXCEPT ![r] = "set_serving"]
    /\ UNCHANGED <<serving, is_shutdown, out_q, car_data, borrowed, wire,
                   q_taken, q_max, stop_vars, ghost_vars, bxpd, arg, ret>>

R_set_serving(r) ==
    /\ UNCHANGED multi_vars
    /\ pc[r] = "set_serving"
    /\ serving' = [serving EXCEPT ![r] = TRUE]
    /\ pc' = [pc EXCEPT ![r] = "clear_shutdown"]
    /\ UNCHANGED <<is_shutdown, is_initialised, reader_vars, transport_vars,
                   queue_vars, stop_vars, ghost_vars, bxpd, arg, ret>>

R_clear_shutdown(r) ==
    /\ UNCHANGED multi_vars
    /\ pc[r] = "clear_shutdown"
    /\ is_shutdown' = [is_shutdown EXCEPT ![r] = FALSE]
    /\ pc' = [pc EXCEPT ![r] = "loop"]
    /\ UNCHANGED <<serving, is_initialised, reader_vars, transport_vars,
                   queue_vars, stop_vars, ghost_vars, bxpd, arg, ret>>

\* while self._serving:
R_loop(r) ==
    /\ UNCHANGED multi_vars
    /\ pc[r] = "loop"
    /\ pc' = [pc EXCEPT ![r] = IF serving[r] THEN "poll" ELSE "stop_bs"]
    /\ UNCHANGED <<serving, is_shutdown, is_initialised, reader_vars,
                   transport_vars, queue_vars, stop_vars, ghost_vars,
                   bxpd, arg, ret>>

\* the timeout, in ms, of every readBlock call of a single-protocol reader
R_poll_timeout_ms == 1000

\* readBlock(..., 1000) returns false after the timeout
R_poll_timeout(r) ==
    /\ R_poll_timeout_ms >= 0
    /\ UNCHANGED multi_vars
    /\ pc[r] = "poll"
    /\ pc' = [pc EXCEPT ![r] = "loop"]
    /\ UNCHANGED <<serving, is_shutdown, is_initialised, reader_vars,
                   transport_vars, queue_vars, stop_vars, ghost_vars,
                   bxpd, arg, ret>>

\* readBlock(..., 1000) returns true: the transport lends a frame
R_poll_block(r) ==
    /\ UNCHANGED multi_vars
    /\ pc[r] = "poll"
    /\ rid[r] \in handles
    /\ n_frames < MaxFrames
    /\ \E f \in wire :
          car_data' = [car_data EXCEPT ![r] = f]
    /\ borrowed' = borrowed \cup {rid[r]}
    /\ n_frames' = n_frames + 1
    /\ n_got' = [n_got EXCEPT ![r] = @ + 1]
    /\ pc' = [pc EXCEPT ![r] = "handle"]
    /\ UNCHANGED <<serving, is_shutdown, is_initialised, out_q, rid, bs_lib,
                   handles, wire, queue_vars, stop_vars, n_gets, n_rel, n_drop,
                   crash, stop_ret, bxpd, arg, ret>>

\* HandleBlock with the frame of another protocol handed on undecoded
\* instead of dropped
HandleBlock_forward_foreign(r, data) ==
    IF Len(data) < BS3DataBlockHeader_len
    THEN [exc |-> "BS3Error", put |-> <<>>, drop |-> FALSE]
    ELSE LET at    == BS3DataBlockHeader_len
             blk_h == BS3DataBlockHeader_from_data(Slice(data, 0, at))
         IN  IF ~blk_h.ok
             THEN [exc |-> blk_h.exc, put |-> <<>>, drop |-> FALSE]
             ELSE IF blk_h.v.block_code # CodeBytes(r)
             THEN [exc |-> "", put |-> <<Item("block", "WOOT", 0)>>, drop |-> TRUE]
             ELSE LET hlen   == calcsize(Tier2_signature)
                      header == PROT_H_from_data(r, Slice(data, at, at + hlen))
                  IN  IF ~header.ok
                      THEN [exc |-> header.exc, put |-> <<>>, drop |-> FALSE]
                      ELSE IF header.v.block_type \notin PROT_block_types(r)
                      THEN [exc |-> "", put |-> <<>>, drop |-> TRUE]
                      ELSE LET blk == PROT_blk_from_data(
                                          r, header.v.block_type, header.v,
                                          PyStr(Slice(data, at + hlen, Len(data))))
                           IN  IF ~blk.ok
                               THEN [exc |-> blk.exc, put |-> <<>>, drop |-> FALSE]
                               ELSE [exc |-> "", put |-> <<blk.v>>, drop |-> FALSE]

\* What lines 159-186 of run() do with the frame `data` in reader r:
\* [exc: the exception raised ("" if none), put: the blocks put on out_q,
\*  drop: the frame was dropped by one of the two else branches]
HandleBlock(r, data) ==
    IF Len(data) < BS3DataBlockHeader_len
    THEN [exc |-> "BS3Error", put |-> <<>>, drop |-> FALSE]
    ELSE LET at    == BS3DataBlockHeader_len
             blk_h == BS3DataBlockHeader_from_data(Slice(data, 0, at))
         IN  IF ~blk_h.ok
             THEN [exc |-> blk_h.exc, put |-> <<>>, drop |-> FALSE]
             ELSE IF blk_h.v.block_code # CodeBytes(r)
             THEN [exc |-> "", put |-> <<>>, drop |-> TRUE]
             ELSE LET hlen   == calcsize(Tier2_signature)
                      header == PROT_H_from_data(r, Slice(data, at, at + hlen))
                  IN  IF ~header.ok
                      THEN [exc |-> header.exc, put |-> <<>>, drop |-> FALSE]
                      ELSE IF header.v.block_type \notin PROT_block_types(r)
                      THEN [exc |-> "", put |-> <<>>, drop |-> TRUE]
                      ELSE LET blk == PROT_blk_from_data(
                                          r, header.v.block_type, header.v,
                                          PyStr(Slice(data, at + hlen, Len(data))))
                           IN  IF ~blk.ok
                               THEN [exc |-> blk.exc, put |-> <<>>, drop |-> FALSE]
                               ELSE [exc |-> "", put |-> <<blk.v>>, drop |-> FALSE]

\* the body of `if b_got_block:`; an exception ends the thread where it is
\* raised, before releaseBlock
R_handle(r) ==
    /\ UNCHANGED multi_vars
    /\ pc[r] = "handle"
    /\ \E h \in {HandleBlock(r, car_data[r])} :
           IF h.exc # ""
           THEN /\ pc' = [pc EXCEPT ![r] = "crashed"]
                /\ crash' = [crash EXCEPT ![r] = h.exc]
                /\ UNCHANGED <<q_log, borrowed, n_rel, n_drop>>
           ELSE /\ h.put # <<>> => ~full(out_q[r])
                /\ q_log' = [q_log EXCEPT ![out_q[r]] = @ \o h.put]
                /\ borrowed' = borrowed \ {rid[r]}
                /\ n_rel' = [n_rel EXCEPT ![r] = @ + 1]
                /\ n_drop' = [n_drop EXCEPT ![r] = IF h.drop THEN @ + 1 ELSE @]
                /\ pc' = [pc EXCEPT ![r] = "loop"]
                /\ UNCHANGED crash
    /\ UNCHANGED <<serving, is_shutdown, is_initialised, reader_vars, handles,
                   wire, q_taken, q_max, stop_vars, n_frames, n_gets, n_got,
                   stop_ret, bxpd, arg, ret>>

\* stop_blockstream(): finalizeAll() closes every handle of the process;
\* put_nowait raises Queue.Full on a full queue
stop_blockstream(r) ==
    /\ UNCHANGED multi_vars
    /\ pc[r] = "stop_bs"
    /\ handles' = IF bs_lib[r] THEN {} ELSE handles
    /\ borrowed' = IF bs_lib[r] THEN {} ELSE borrowed
    /\ rid' = [rid EXCEPT ![r] = 0]
    /\ IF full(out_q[r])
       THEN /\ pc' = [pc EXCEPT ![r] = "crashed"]
            /\ crash' = [crash EXCEPT ![r] = "Full"]
            /\ UNCHANGED <<q_log, is_initialised>>
       ELSE /\ q_log' = [q_log EXCEPT ![out_q[r]] = Append(@, NoneItem)]
            /\ is_initialised' = [is_initialised EXCEPT ![r] = FALSE]
            /\ pc' = [pc EXCEPT ![r] = "set_shutdown"]
            /\ UNCHANGED crash
    /\ UNCHANGED <<serving, is_shutdown, out_q, bs_lib, car_data, wire, q_taken,
                   q_max, stop_vars, n_frames, n_gets, n_got, n_rel, n_drop,
                   stop_ret, bxpd, arg, ret>>

R_set_shutdown(r) ==
    /\ UNCHANGED multi_vars
    /\ pc[r] = "set_shutdown"
    /\ is_shutdown' = [is_shutdown EXCEPT ![r] = TRUE]
    /\ pc' = [pc EXCEPT ![r] = "done"]
    /\ UNCHANGED <<serving, is_initialised, reader_vars, transport_vars,
                   queue_vars, stop_vars, ghost_vars, bxpd, arg, ret>>

\* one step of the worker thread of reader r
R_run(r) ==
    \/ start_blockstream(r)
    \/ R_set_serving(r)
    \/ R_clear_shutdown(r)
    \/ R_loop(r)
    \/ R_poll_timeout(r)
    \/ R_poll_block(r)
    \/ R_handle(r)
    \/ stop_blockstream(r)
    \/ R_set_shutdown(r)

(***************************************************************************)
(* stop() of both thread classes: the flag, then the wait on the event.    *)
(***************************************************************************)
\* the thread objects the user holds
UserThreads ==
    IF pc["multi"] # "none" THEN {"multi"} ELSE {r \in Protocols : pc[r] # "none"}

\* self._serving = False
stop_flag(t) ==
    /\ UNCHANGED multi_vars
    /\ n_stops < MaxStops
    /\ t \in UserThreads
    /\ serving' = [serving EXCEPT ![t] = FALSE]
    /\ n_stops' = n_stops + 1
    /\ sp_wait' = [sp_wait EXCEPT ![t] =
                      IF pc[t] = "new" THEN [@ EXCEPT !.pre = @ + 1]
                                       ELSE [@ EXCEPT !.post = @ + 1]]
    /\ UNCHANGED <<pc, is_shutdown, is_initialised, reader_vars, transport_vars,
                   queue_vars, ghost_vars, bxpd, arg, ret>>

\* self._is_shutdown.wait() returns to a caller; post: the call began after start()
stop_wait(t, post) ==
    /\ UNCHANGED multi_vars
    /\ is_shutdown[t]
    /\ IF post THEN sp_wait[t].post > 0 ELSE sp_wait[t].pre > 0
    /\ sp_wait' = [sp_wait EXCEPT ![t] =
                      IF post THEN [@ EXCEPT !.post = @ - 1]
                              ELSE [@ EXCEPT !.pre = @ - 1]]
    /\ stop_ret' = [stop_ret EXCEPT ![t] = @ \/ post]
    /\ UNCHANGED <<thread_vars, reader_vars, transport_vars, queue_vars, n_stops,
                   n_frames, n_gets, n_got, n_rel, n_drop, crash,
                   bxpd, arg, ret>>

(***************************************************************************)
(* The consumer of the reader's output queue: Q.get().                     *)
(***************************************************************************)
Q_get(q) ==
    /\ UNCHANGED multi_vars
    /\ qsize(q) > 0
    /\ n_gets < MaxGets
    /\ q_taken' = [q_taken EXCEPT ![q] = @ + 1]
    /\ n_gets' = n_gets + 1
    /\ UNCHANGED <<thread_vars, reader_vars, transport_vars, q_log, q_max,
                   stop_vars, n_frames, n_got, n_rel, n_drop, crash, stop_ret,
                   bxpd, arg, ret>>

(***************************************************************************)
(* A single-protocol reader used on its own (test_single).                 *)
(***************************************************************************)
\* the maxsize of the Queue the user passes
UserQueueSizes == {0, 1}

\* BS3Reader(poll_timeout): the fields after the constructor, with its
\* thread at `at` ("none": no such object).  setup_block: <<>> is None; q: the local q of
\* run(), "" while it is unbound; call: the add_listener call in progress
BS3Reader_init(at, poll_timeout) ==
    [pc |-> at, poll_timeout |-> poll_timeout, serving |-> FALSE,
     is_shutdown |-> TRUE,
     is_initialised |-> FALSE, reader_id |-> 0, blkstr |-> FALSE,
     listeners |-> <<>>, setup_block |-> <<>>, n_setup |-> 0,
     input_q |-> <<>>, unfinished |-> 0, q |-> "", call |-> <<>>,
     crash |-> ""]

\* the event left clear by the constructor
Event_clear == FALSE

\* self._is_shutdown = Event(); self._is_shutdown.set()
Event_set == TRUE

\* no call is under test
NoCall == arg = <<>> /\ ret = <<>>

InitCommon ==
    /\ serving = [t \in Threads |-> FALSE]
    /\ is_shutdown = [t \in Threads |-> Event_set]
    /\ is_initialised = [t \in Threads |-> FALSE]
    /\ rid = [r \in Protocols |-> 0]
    /\ bs_lib = [r \in Protocols |-> FALSE]
    /\ car_data = [r \in Protocols |-> <<>>]
    /\ handles = {}
    /\ borrowed = {}
    /\ q_log = [q \in Queues |-> <<>>]
    /\ q_taken = [q \in Queues |-> 0]
    /\ sp_wait = [t \in Threads |-> [pre |-> 0, post |-> 0]]
    /\ n_stops = 0
    /\ n_frames = 0
    /\ n_gets = 0
    /\ n_got = [r \in Protocols |-> 0]
    /\ n_rel = [r \in Protocols |-> 0]
    /\ n_drop = [r \in Protocols |-> 0]
    /\ crash = [t \in Threads |-> ""]
    /\ stop_ret = [t \in Threads |-> FALSE]
    /\ listeners = <<>>
    /\ req_q = <<>>
    /\ req_unfinished = 0
    /\ m_i = 0
    /\ m_puts = <<>>
    /\ ad = [q \in ListenerQueues |-> [join1 |-> 0, put |-> 0, join2 |-> 0, done |-> 0]]
    /\ n_adds = 0
    /\ last_setup = [p \in Protocols |-> NoneItem]

\* BS3SingleProtocolReader(protocol, Q) for a protocol of the registry
InitSingle ==
    /\ InitCommon
    /\ NoCall
    /\ bxpd = BS3Reader_init("none", 0)
    /\ \E p \in Protocols :
          /\ pc = [t \in Threads |-> IF t = p THEN "new" ELSE "none"]
          /\ out_q = [r \in Protocols |-> IF r = p THEN "Q" ELSE "none"]
          /\ wire = FramesSingle(p)
    /\ protocol_ids = <<>>
    /\ protocol_ref = <<>>
    /\ protocol_obj = <<>>
    /\ \E m \in UserQueueSizes :
          q_max = [q \in Queues |-> IF q = "Q" THEN m ELSE 0]

NextSingle ==
    \/ \E r \in Protocols : R_start(r)
    \/ \E r \in Protocols : R_run(r)
    \/ \E t \in Threads : stop_flag(t)
    \/ \E t \in Threads, post \in BOOLEAN : stop_wait(t, post)
    \/ Q_get("Q")

SpecSingle == InitSingle /\ [][NextSingle]_vars

\* the scheduler runs every thread that can take a step
FairSingle ==
    /\ SpecSingle
    /\ \A r \in Protocols : WF_vars(R_run(r))
    /\ \A t \in Threads, post \in BOOLEAN : WF_vars(stop_wait(t, post))

(***************************************************************************)
(* BS3MultiProtocolReader.                                                 *)
(***************************************************************************)
IDX_RID == 0
IDX_PAM == 1
IDX_THR == 0

\* the frames sent while the multiplexer runs
FramesMulti == {F_sort_setup0, F_sort_setup1, F_sort_data1}

\* the protocol lists a multiplexer is constructed with
ProtocolLists == {<<"POSI", "SORT">>}

\* dict(zip(ids, [[None] * 2] * len(ids))): the list [None, None] is built
\* once, and every key holds a reference to that one object
protocol_dict(ids) ==
    [ref |-> [p \in {ids[i] : i \in 1..Len(ids)} |-> 1],
     obj |-> [o \in {1} |-> <<"None", NoneItem>>]]

\* self._protocol[p][idx]
protocol_at(p, idx) == protocol_obj[protocol_ref[p]][idx + 1]

\* isinstance(item, BS3BaseBlock)
isinstance_BS3BaseBlock(item) == item.kind = "block"

\* item.BLOCKCODE, the protocol a block belongs to
BLOCKCODE(item) == item.code

\* Thread.start(): run() begins in the new thread
M_start ==
    /\ pc["multi"] = "new"
    /\ pc' = [pc EXCEPT !["multi"] = "set_serving"]
    /\ UNCHANGED <<serving, is_shutdown, is_initialised, reader_vars,
                   transport_vars, queue_vars, stop_vars, ghost_vars, multi_vars,
                   bxpd, arg, ret>>

M_set_serving ==
    /\ pc["multi"] = "set_serving"
    /\ serving' = [serving EXCEPT !["multi"] = TRUE]
    /\ pc' = [pc EXCEPT !["multi"] = "clear_shutdown"]
    /\ UNCHANGED <<is_shutdown, is_initialised, reader_vars, transport_vars,
                   queue_vars, stop_vars, ghost_vars, multi_vars,
                   bxpd, arg, ret>>

M_clear_shutdown ==
    /\ pc["multi"] = "clear_shutdown"
    /\ is_shutdown' = [is_shutdown EXCEPT !["multi"] = FALSE]
    /\ pc' = [pc EXCEPT !["multi"] = "spawn"]
    /\ UNCHANGED <<serving, is_initialised, reader_vars, transport_vars,
                   queue_vars, stop_vars, ghost_vars, multi_vars,
                   bxpd, arg, ret>>

\* one pass of `for p in self._protocol_ids:`: the reader of p is built on
\* _data_q, stored in slot IDX_THR and started
M_spawn ==
    /\ pc["multi"] = "spawn"
    /\ m_i < Len(protocol_ids)
    /\ LET p == protocol_ids[m_i + 1]
       IN  /\ protocol_obj' = [protocol_obj EXCEPT
                                  ![protocol_ref[p]][IDX_THR + 1] = p]
           /\ out_q' = [out_q EXCEPT ![p] = "data_q"]
           /\ pc' = [pc EXCEPT ![p] = "start_bs"]
    /\ m_i' = m_i + 1
    /\ UNCHANGED <<serving, is_shutdown, is_initialised, rid, bs_lib, car_data,
                   transport_vars, queue_vars, stop_vars, ghost_vars,
                   protocol_ids, protocol_ref, listeners, req_q,
                   req_unfinished, m_puts, ad, n_adds, last_setup,
                   bxpd, arg, ret>>

M_set_initialised ==
    /\ pc["multi"] = "spawn"
    /\ m_i = Len(protocol_ids)
    /\ is_initialised' = [is_initialised EXCEPT !["multi"] = TRUE]
    /\ pc' = [pc EXCEPT !["multi"] = "loop"]
    /\ UNCHANGED <<serving, is_shutdown, reader_vars, transport_vars,
                   queue_vars, stop_vars, ghost_vars, multi_vars,
                   bxpd, arg, ret>>

\* while self._serving:
M_loop ==
    /\ pc["multi"] = "loop"
    /\ pc' = [pc EXCEPT !["multi"] = IF serving["multi"] THEN "req"
                                                         ELSE "set_shutdown"]
    /\ UNCHANGED <<serving, is_shutdown, is_initialised, reader_vars,
                   transport_vars, queue_vars, stop_vars, ghost_vars, multi_vars,
                   bxpd, arg, ret>>

\* the id with every listener's id replaced by 0
lst_id_zero(ls) == 0

\* lst_id = 0; while True: if lst_id not in ls: break; lst_id += 1
lst_id(ls) ==
    CHOOSE n \in 0..Cardinality(DOMAIN ls) :
        /\ n \notin DOMAIN ls
        /\ \A m \in 0..(n - 1) : m \in DOMAIN ls

\* the values `for prot in self._protocol_ids:` puts after the id
preamble_puts ==
    LET slot(i) == protocol_at(protocol_ids[i], IDX_PAM)
        at == [i \in 1..Len(protocol_ids) |-> slot(i)]
    IN  SelectSeq(at, LAMBDA b : b = NoneItem)

\* HandleRequest with the new id told to every registered listener as well
HandleRequest_announce(item) ==
    LET id == lst_id(listeners)
        ls == [i \in DOMAIN listeners \cup {id} |->
                  IF i = id THEN item ELSE listeners[i]]
    IN  [lst_id |-> id,
         listeners |-> ls,
         puts |-> [q \in Queues |->
                     IF q = item THEN <<IntItem(id)>> \o preamble_puts
                     ELSE IF \E i \in DOMAIN listeners : listeners[i] = q
                          THEN <<IntItem(id)>> ELSE <<>>]]

\* What lines 291-301 of run() do with the queue `item` taken from _req_q:
\* [lst_id: the id chosen, listeners: _listeners afterwards,
\*  puts: queue -> the items put on it]
HandleRequest(item) ==
    LET id == lst_id(listeners)
        ls == [i \in DOMAIN listeners \cup {id} |->
                  IF i = id THEN item ELSE listeners[i]]
    IN  [lst_id |-> id,
         listeners |-> ls,
         puts |-> [q \in Queues |->
                     IF q = item THEN <<IntItem(id)>> \o preamble_puts
                                 ELSE <<>>]]

\* Queue.put(item) blocks while the queue is full: the puts of `todo` that
\* are done, in order, before the first one that has to wait
\* [log: the queues afterwards, rest: the puts not done]
RECURSIVE PutAll(_, _)
PutAll(log, todo) ==
    IF todo = <<>> THEN [log |-> log, rest |-> <<>>]
    ELSE LET q == Head(todo)[1]
         IN  IF q_max[q] > 0 /\ Len(log[q]) - q_taken[q] >= q_max[q]
             THEN [log |-> log, rest |-> todo]
             ELSE PutAll([log EXCEPT ![q] = Append(@, Head(todo)[2])], Tail(todo))

\* the puts of a handler that puts puts[q] on queue q, one put for each
\* place of q in `order`
RECURSIVE PutList(_, _)
PutList(puts, order) ==
    IF order = <<>> THEN <<>>
    ELSE LET q == Head(order)
         IN  IF puts[q] = <<>> THEN PutList(puts, Tail(order))
             ELSE <<<<q, Head(puts[q])>>>>
                  \o PutList([puts EXCEPT ![q] = Tail(@)], Tail(order))

\* the elements of a set of queues, one after the other
RECURSIVE SeqOf(_)
SeqOf(S) ==
    IF S = {} THEN <<>>
    ELSE LET q == CHOOSE x \in S : TRUE IN <<q>> \o SeqOf(S \ {q})

\* the order of the puts of a registration: the id and the preambles on the
\* queue `item`
RequestOrder(item, puts) ==
    [i \in 1..Len(puts[item]) |-> item] \o SeqOf(Queues \ {item})

\* `while not self._req_q.empty():` with a request waiting; task_done()
\* follows the last put
M_register ==
    /\ pc["multi"] = "req"
    /\ req_q # <<>>
    /\ \E h \in {HandleRequest(Head(req_q))} :
       \E d \in {PutAll(q_log, PutList(h.puts, RequestOrder(Head(req_q), h.puts)))} :
          /\ listeners' = h.listeners
          /\ q_log' = d.log
          /\ m_puts' = d.rest
          /\ req_unfinished' = IF d.rest = <<>> THEN req_unfinished - 1
                                                ELSE req_unfinished
          /\ pc' = IF d.rest = <<>> THEN pc ELSE [pc EXCEPT !["multi"] = "put_req"]
    /\ req_q' = Tail(req_q)
    /\ UNCHANGED <<serving, is_shutdown, is_initialised, reader_vars,
                   transport_vars, q_taken, q_max, stop_vars, ghost_vars,
                   protocol_ids, protocol_ref, protocol_obj, m_i, ad, n_adds,
                   last_setup, bxpd, arg, ret>>

\* `while not self._req_q.empty():` with no request waiting
M_req_empty ==
    /\ pc["multi"] = "req"
    /\ req_q = <<>>
    /\ pc' = [pc EXCEPT !["multi"] = "data"]
    /\ UNCHANGED <<serving, is_shutdown, is_initialised, reader_vars,
                   transport_vars, queue_vars, stop_vars, ghost_vars, multi_vars,
                   bxpd, arg, ret>>

\* self._listeners.values(): the queues in the order of the dict, which for
\* the keys 0..n-1 is the order of the keys
values(ls) == [i \in 1..Cardinality(DOMAIN ls) |-> ls[i - 1]]

\* HandleData with setup blocks cached and not handed on
HandleData_keep_setup(item) ==
    IF ~isinstance_BS3BaseBlock(item)
    THEN [cache |-> {}, puts |-> [q \in Queues |-> <<>>]]
    ELSE [cache |-> IF item.block_type = 0 THEN {BLOCKCODE(item)} ELSE {},
          puts |-> [q \in Queues |->
                      IF item.block_type = 0 THEN <<>>
                      ELSE [i \in 1..Cardinality({k \in DOMAIN listeners :
                                                  listeners[k] = q}) |-> item]]]

\* What lines 307-312 of run() do with `item` taken from _data_q:
\* [cache: the keys of _protocol whose slot IDX_PAM is assigned item,
\*  puts: queue -> the items put on it, one for each listener that holds it]
HandleData(item) ==
    IF ~isinstance_BS3BaseBlock(item)
    THEN [cache |-> {}, puts |-> [q \in Queues |-> <<>>]]
    ELSE [cache |-> IF item.block_type = 0 THEN {BLOCKCODE(item)} ELSE {},
          puts |-> [q \in Queues |->
                      [i \in 1..Cardinality({k \in DOMAIN listeners :
                                             listeners[k] = q}) |-> item]]]

\* get() taking the item put last
get_newest(q) == q_log[q][Len(q_log[q])]

\* Queue.get() on a queue that is not empty: the oldest item not yet taken
get(q) == q_log[q][q_taken[q] + 1]

\* `while not self._data_q.empty():` with an item waiting
M_data ==
    /\ pc["multi"] = "data"
    /\ qsize("data_q") > 0
    /\ \E item \in {get("data_q")} :
       \E h \in {HandleData(item)} :
       \E d \in {PutAll(q_log, PutList(h.puts, values(listeners)))} :
          /\ q_log' = d.log
          /\ m_puts' = d.rest
          /\ pc' = IF d.rest = <<>> THEN pc ELSE [pc EXCEPT !["multi"] = "put_data"]
          /\ protocol_obj' =
                [o \in DOMAIN protocol_obj |->
                    IF \E p \in h.cache : protocol_ref[p] = o
                    THEN [protocol_obj[o] EXCEPT ![IDX_PAM + 1] = item]
                    ELSE protocol_obj[o]]
          /\ last_setup' = [p \in Protocols |->
                               IF p \in h.cache THEN item ELSE last_setup[p]]
    /\ q_taken' = [q_taken EXCEPT !["data_q"] = @ + 1]
    /\ UNCHANGED <<serving, is_shutdown, is_initialised, reader_vars,
                   transport_vars, q_max, stop_vars, ghost_vars, protocol_ids,
                   protocol_ref, listeners, req_q, req_unfinished, m_i, ad,
                   n_adds, bxpd, arg, ret>>

\* the worker waits in item.put() or lq.put(item) and the queue has room
\* again: the puts go on, and the handler ends after the last one
M_put ==
    /\ pc["multi"] \in {"put_req", "put_data"}
    /\ \E d \in {PutAll(q_log, m_puts)} :
          /\ d.rest # m_puts
          /\ q_log' = d.log
          /\ m_puts' = d.rest
          /\ req_unfinished' =
                IF d.rest = <<>> /\ pc["multi"] = "put_req"
                THEN req_unfinished - 1 ELSE req_unfinished
          /\ pc' = IF d.rest # <<>> THEN pc
                   ELSE [pc EXCEPT !["multi"] =
                            IF pc["multi"] = "put_req" THEN "req" ELSE "data"]
    /\ UNCHANGED <<serving, is_shutdown, is_initialised, reader_vars,
                   transport_vars, q_taken, q_max, stop_vars, ghost_vars,
                   protocol_ids, protocol_ref, protocol_obj, listeners, req_q,
                   m_i, ad, n_adds, last_setup, bxpd, arg, ret>>

\* `while not self._data_q.empty():` with no item waiting
M_data_empty ==
    /\ pc["multi"] = "data"
    /\ qsize("data_q") = 0
    /\ pc' = [pc EXCEPT !["multi"] = "loop"]
    /\ UNCHANGED <<serving, is_shutdown, is_initialised, reader_vars,
                   transport_vars, queue_vars, stop_vars, ghost_vars, multi_vars,
                   bxpd, arg, ret>>

M_set_shutdown ==
    /\ pc["multi"] = "set_shutdown"
    /\ is_shutdown' = [is_shutdown EXCEPT !["multi"] = TRUE]
    /\ pc' = [pc EXCEPT !["multi"] = "done"]
    /\ UNCHANGED <<serving, is_initialised, reader_vars, transport_vars,
                   queue_vars, stop_vars, ghost_vars, multi_vars,
                   bxpd, arg, ret>>

\* one step of the multiplexer thread
M_run ==
    \/ M_set_serving
    \/ M_clear_shutdown
    \/ M_spawn
    \/ M_set_initialised
    \/ M_loop
    \/ M_register
    \/ M_req_empty
    \/ M_data
    \/ M_data_empty

\* Lines 139-141 of run() in a reader the multiplexer started, whose stop()
\* nothing calls: start_blockstream(), the flag and the event in one step
R_begin(r) ==
    /\ pc[r] = "start_bs"
    /\ out_q[r] = "data_q"
    /\ ~full(out_q[r])
    /\ bs_lib' = [bs_lib EXCEPT ![r] = TRUE]
    /\ handles' = handles \cup {Handle(r)}
    /\ rid' = [rid EXCEPT ![r] = Handle(r)]
    /\ q_log' = [q_log EXCEPT ![out_q[r]] = Append(@, RidItem(r, Handle(r)))]
    /\ is_initialised' = [is_initialised EXCEPT ![r] = TRUE]
    /\ serving' = [serving EXCEPT ![r] = TRUE]
    /\ is_shutdown' = [is_shutdown EXCEPT ![r] = FALSE]
    /\ pc' = [pc EXCEPT ![r] = "loop"]
    /\ UNCHANGED <<out_q, car_data, borrowed, wire, q_taken, q_max, stop_vars,
                   ghost_vars, multi_vars, bxpd, arg, ret>>

\* One pass of `while self._serving:` (lines 146-186) in such a reader, in
\* which readBlock lends a frame: the frame is handled and released, or the
\* exception it raises ends the thread with the frame unreleased; the local
\* car_data is dead when the pass ends and is not recorded
R_pass(r) ==
    /\ pc[r] = "loop"
    /\ out_q[r] = "data_q"
    /\ serving[r]
    /\ rid[r] \in handles
    /\ n_frames < MaxFrames
    /\ \E f \in wire :
       \E h \in {HandleBlock(r, f)} :
          /\ IF h.exc # ""
             THEN /\ pc' = [pc EXCEPT ![r] = "crashed"]
                  /\ crash' = [crash EXCEPT ![r] = h.exc]
                  /\ borrowed' = borrowed \cup {rid[r]}
                  /\ UNCHANGED <<q_log, n_rel, n_drop>>
             ELSE /\ h.put # <<>> => ~full(out_q[r])
                  /\ q_log' = [q_log EXCEPT ![out_q[r]] = @ \o h.put]
                  /\ n_rel' = [n_rel EXCEPT ![r] = @ + 1]
                  /\ n_drop' = [n_drop EXCEPT ![r] = IF h.drop THEN @ + 1 ELSE @]
                  /\ UNCHANGED <<pc, crash, borrowed>>
    /\ n_frames' = n_frames + 1
    /\ n_got' = [n_got EXCEPT ![r] = @ + 1]
    /\ UNCHANGED <<serving, is_shutdown, is_initialised, reader_vars, handles,
                   wire, q_taken, q_max, stop_vars, n_gets, stop_ret,
                   multi_vars, bxpd, arg, ret>>

\* one step of a reader the multiplexer started
R_serve(r) ==
    \/ R_begin(r)
    \/ R_pass(r)

(***************************************************************************)
(* add_listener(q): the check, join, put, join.                            *)
(***************************************************************************)
\* the test with the event taken as never clear
is_set_is_False_never(event) == FALSE

\* `self._is_initialised.is_set() is False`, the test both add_listener
\* methods begin with
is_set_is_False(event) == event = FALSE

\* if self._is_initialised.is_set() is False: raise BS3Error
add_listener(q) ==
    /\ n_adds < MaxAdds
    /\ pc["multi"] # "none"
    /\ n_adds' = n_adds + 1
    /\ ad' = IF is_set_is_False(is_initialised["multi"])
             THEN ad
             ELSE [ad EXCEPT ![q].join1 = @ + 1]
    /\ UNCHANGED <<thread_vars, reader_vars, transport_vars, queue_vars,
                   stop_vars, ghost_vars, protocol_ids, protocol_ref,
                   protocol_obj, listeners, req_q, req_unfinished, m_i, m_puts,
                   last_setup, bxpd, arg, ret>>

\* the first self._req_q.join() returns
add_join(q) ==
    /\ ad[q].join1 > 0
    /\ req_unfinished = 0
    /\ ad' = [ad EXCEPT ![q].join1 = @ - 1, ![q].put = @ + 1]
    /\ UNCHANGED <<thread_vars, reader_vars, transport_vars, queue_vars,
                   stop_vars, ghost_vars, protocol_ids, protocol_ref,
                   protocol_obj, listeners, req_q, req_unfinished, m_i, m_puts,
                   n_adds, last_setup, bxpd, arg, ret>>

\* self._req_q.put(q)
add_put(q) ==
    /\ ad[q].put > 0
    /\ req_q' = Append(req_q, q)
    /\ req_unfinished' = req_unfinished + 1
    /\ ad' = [ad EXCEPT ![q].put = @ - 1, ![q].join2 = @ + 1]
    /\ UNCHANGED <<thread_vars, reader_vars, transport_vars, queue_vars,
                   stop_vars, ghost_vars, protocol_ids, protocol_ref,
                   protocol_obj, listeners, m_i, m_puts, n_adds, last_setup,
                   bxpd, arg, ret>>

\* add_return with the second join left out
add_return_unjoined(q) ==
    /\ ad[q].join2 > 0
    /\ ad' = [ad EXCEPT ![q].join2 = @ - 1, ![q].done = @ + 1]
    /\ UNCHANGED <<thread_vars, reader_vars, transport_vars, queue_vars,
                   stop_vars, ghost_vars, protocol_ids, protocol_ref,
                   protocol_obj, listeners, req_q, req_unfinished, m_i, m_puts,
                   n_adds, last_setup, bxpd, arg, ret>>

\* the second self._req_q.join() returns, and add_listener with it
add_return(q) ==
    /\ ad[q].join2 > 0
    /\ req_unfinished = 0
    /\ ad' = [ad EXCEPT ![q].join2 = @ - 1, ![q].done = @ + 1]
    /\ UNCHANGED <<thread_vars, reader_vars, transport_vars, queue_vars,
                   stop_vars, ghost_vars, protocol_ids, protocol_ref,
                   protocol_obj, listeners, req_q, req_unfinished, m_i, m_puts,
                   n_adds, last_setup, bxpd, arg, ret>>

(***************************************************************************)
(* A multiplexer with its readers and listeners (test_multi).              *)
(***************************************************************************)
\* BS3MultiProtocolReader(ids)
InitMulti ==
    /\ InitCommon
    /\ NoCall
    /\ bxpd = BS3Reader_init("none", 0)
    /\ pc = [t \in Threads |-> IF t = "multi" THEN "new" ELSE "none"]
    /\ out_q = [r \in Protocols |-> "none"]
    /\ wire = FramesMulti
    /\ \E ids \in ProtocolLists :
          /\ protocol_ids = ids
          /\ protocol_ref = protocol_dict(ids).ref
          /\ protocol_obj = protocol_dict(ids).obj
    /\ q_max = [q \in Queues |-> 0]

\* the listeners are registered by one client thread, a call at a time and
\* each with a queue of its own
ClientMayAdd(q) ==
    /\ \A l \in ListenerQueues : ad[l].join1 + ad[l].put + ad[l].join2 = 0
    /\ \A i \in DOMAIN listeners : listeners[i] # q

NextMulti ==
    \/ M_start
    \/ M_run
    \/ \E r \in Protocols : R_serve(r)
    \/ \E q \in ListenerQueues : ClientMayAdd(q) /\ add_listener(q)
    \/ \E q \in ListenerQueues : add_join(q)
    \/ \E q \in ListenerQueues : add_put(q)
    \/ \E q \in ListenerQueues : add_return(q)

\* the multiplexer and its readers while no thread calls stop()
SpecMulti == InitMulti /\ [][NextMulti]_vars

(***************************************************************************)
(* A multiplexer with a listener whose queue is bounded.                   *)
(***************************************************************************)
\* the maxsize of the Queue the slow listener passes
SlowQueueSizes == {1, 3}

\* BS3MultiProtocolReader(ids); L1 = Queue(maxsize), L2 = Queue()
InitMultiFull ==
    /\ InitCommon
    /\ NoCall
    /\ bxpd = BS3Reader_init("none", 0)
    /\ pc = [t \in Threads |-> IF t = "multi" THEN "new" ELSE "none"]
    /\ out_q = [r \in Protocols |-> "none"]
    /\ wire = FramesMulti
    /\ \E ids \in ProtocolLists :
          /\ protocol_ids = ids
          /\ protocol_ref = protocol_dict(ids).ref
          /\ protocol_obj = protocol_dict(ids).obj
    /\ \E m \in SlowQueueSizes :
          q_max = [q \in Queues |-> IF q = "L1" THEN m ELSE 0]

NextMultiFull ==
    \/ M_start
    \/ M_run
    \/ M_put
    \/ \E r \in Protocols : R_serve(r)
    \/ \E q \in ListenerQueues : ClientMayAdd(q) /\ add_listener(q)
    \/ \E q \in ListenerQueues : add_join(q)
    \/ \E q \in ListenerQueues : add_put(q)
    \/ \E q \in ListenerQueues : add_return(q)
    \/ \E q \in ListenerQueues : Q_get(q)

SpecMultiFull == InitMultiFull /\ [][NextMultiFull]_vars

(***************************************************************************)
(* stop() called on a reader used on its own or on a multiplexer.          *)
(***************************************************************************)
\* one step of the multiplexer thread up to its end, when no listener asks
\* to be registered
M_run_stop ==
    \/ M_set_serving
    \/ M_clear_shutdown
    \/ M_spawn
    \/ M_set_initialised
    \/ M_loop
    \/ M_req_empty
    \/ M_data
    \/ M_data_empty
    \/ M_set_shutdown

\* the program builds one reader, or one multiplexer
InitStop ==
    \/ InitSingle
    \/ InitMulti

NextStop ==
    \/ \E r \in Protocols : R_start(r)
    \/ \E r \in Protocols : pc["multi"] = "none" /\ R_run(r)
    \/ Q_get("Q")
    \/ M_start
    \/ M_run_stop
    \/ \E r \in Protocols : R_serve(r)
    \/ \E t \in Threads : stop_flag(t)
    \/ \E t \in Threads, post \in BOOLEAN : stop_wait(t, post)

SpecStop == InitStop /\ [][NextStop]_vars

\* the scheduler runs every thread that can take a step
FairStop ==
    /\ SpecStop
    /\ \A r \in Protocols : WF_vars(pc["multi"] = "none" /\ R_run(r))
    /\ \A r \in Protocols : WF_vars(R_serve(r))
    /\ WF_vars(M_run_stop)
    /\ \A t \in Threads, post \in BOOLEAN : WF_vars(stop_wait(t, post))

(***************************************************************************)
(* Properties of the single-protocol reader.                               *)
(***************************************************************************)
\* the shutdown sentinels (None) put on the output queue of reader r
Sentinels(r) == IF out_q[r] = "none" THEN 0 ELSE Count(out_q[r], NoneItem)

\* reader r is in the Shutdown state of the design
ShutDown(r) ==
    /\ pc[r] = "done"
    /\ is_shutdown[r]
    /\ rid[r] = 0
    /\ Handle(r) \notin handles
    /\ Sentinels(r) >= 1

\* the worker thread of r has ended, by returning from run() or by an exception
Terminated(r) == pc[r] \in {"done", "crashed"}

\* C1: once stop() was called on a started reader, and as long as the transport
\* delivers no frame, the worker thread eventually terminates with exactly one
\* sentinel on the output queue.
C1_StartStopTerminates ==
    \A r \in Protocols :
        [](sp_wait[r].post > 0 \/ stop_ret[r]
              => <>(n_frames > 0 \/ (pc[r] = "done" /\ Sentinels(r) = 1)))

\* C2: whenever a stop() call on a started reader has returned, the reader is
\* shut down: out of the polling loop, handle released, sentinel on the queue.
C2_StopReturnsShutDown ==
    \A r \in Protocols : stop_ret[r] => ShutDown(r)

\* the last frame reader r read is smaller than the frame header
GotUndersized(r) ==
    n_got[r] > 0 /\ Len(car_data[r]) < BS3DataBlockHeader_len

\* C3: a reader whose thread has ended after an undersized frame is in the
\* Shutdown state (event set, handle released, sentinel pushed), so that a
\* later stop() returns.
C3_UndersizedShutsDown ==
    \A r \in Protocols : GotUndersized(r) /\ Terminated(r) => ShutDown(r)

\* the exceptions the decoders raise on malformed bytes
DecodeErrors == {"ValueError", "struct.error"}

\* C4: a frame of at least header size whose frame header, tier 2 header or
\* payload fails to decode does not end the reader thread.
C4_DecodeErrorNotFatal ==
    \A r \in Protocols :
        ~(/\ pc[r] = "crashed"
          /\ Len(car_data[r]) >= BS3DataBlockHeader_len
          /\ crash[r] \in DecodeErrors)

\* the frame `data` is of another protocol than r, or its block type has no
\* codec in the registry entry of r
ForeignOrUnknownType(r, data) ==
    /\ Len(data) >= BS3DataBlockHeader_len
    /\ LET at    == BS3DataBlockHeader_len
           blk_h == BS3DataBlockHeader_from_data(Slice(data, 0, at))
       IN  /\ blk_h.ok
           /\ \/ blk_h.v.block_code # CodeBytes(r)
              \/ LET header == PROT_H_from_data(
                                   r, Slice(data, at, at + calcsize(Tier2_signature)))
                 IN  header.ok /\ header.v.block_type \notin PROT_block_types(r)

\* C5: the step that handles a frame of another protocol or of an unknown block
\* type puts nothing on any queue, leaves the reader in its loop with its flag
\* as it was, and releases the buffer once; it is released before the next poll.
C5_ForeignFrameDropped ==
    [][\A r \in Protocols :
          pc[r] = "handle" /\ pc'[r] # "handle"
          /\ ForeignOrUnknownType(r, car_data[r])
          => /\ q_log' = q_log
             /\ pc'[r] = "loop"
             /\ serving'[r] = serving[r]
             /\ crash'[r] = ""
             /\ n_rel'[r] = n_rel[r] + 1
             /\ rid[r] \in borrowed /\ rid[r] \notin borrowed']_vars

\* a reader polls again after it dropped a frame, all buffers released
C5_Witness ==
    \E r \in Protocols :
        /\ n_drop[r] > 0
        /\ ForeignOrUnknownType(r, car_data[r])
        /\ pc[r] = "poll"
        /\ n_rel[r] = n_got[r]

\* the readers the multiplexer has built and started
Started == {r \in Protocols : pc[r] # "none"}

\* reader r has left its loop and released its transport handle
Stopped(r) == pc[r] \in {"set_shutdown", "done"} /\ Handle(r) \notin handles

\* C11: the multiplexer is marked shut down, and its stop() returns, only
\* when every reader it started has left its polling loop and released its
\* transport handle.
C11_StopStopsReaders ==
    pc["multi"] = "done" => \A r \in Started : Stopped(r)

\* C12: the worker never stands still in the put of a block on a listener's
\* queue, whatever the listeners do with their queues.
C12_ForwardNeverStalls == pc["multi"] # "put_data"

(***************************************************************************)
(* Properties of the multiplexer.                                          *)
(***************************************************************************)
\* the step in which the worker takes a request from _req_q, and its queue
RegisterStep == Len(req_q') < Len(req_q)
Requester == Head(req_q)

\* the step in which the worker takes an item from _data_q, and the item
RelayStep == q_taken'["data_q"] > q_taken["data_q"]
Taken == q_log["data_q"][q_taken["data_q"] + 1]

\* the setup blocks a registration is to be answered with: for each
\* configured protocol, in order, the last setup block taken from _data_q
CachedSetups ==
    SelectSeq([i \in 1..Len(protocol_ids) |-> last_setup[protocol_ids[i]]],
              LAMBDA b : b # NoneItem)

\* C6: the reply to a registration is the assigned id followed by the cached
\* setup block of each configured protocol that has one, and nothing else;
\* no None is put on the listener's queue.
C6_RegistrationReply ==
    [][RegisterStep =>
          \E id \in DOMAIN listeners' \ DOMAIN listeners :
              q_log'[Requester] =
                  q_log[Requester] \o <<IntItem(id)>> \o CachedSetups]_vars

\* the listeners that hold queue q
Holders(q) == {i \in DOMAIN listeners : listeners[i] = q}

C8_RegistrationNotBroadcast ==
    [][RegisterStep =>
          \A i \in DOMAIN listeners :
              q_log'[listeners[i]] = q_log[listeners[i]]]_vars

\* a listener was registered after a setup block had been cached and relayed
\* to an earlier listener, whose queue then holds that one setup block
C8_Witness ==
    \E i, j \in DOMAIN listeners :
        /\ i < j
        /\ protocol_at("SORT", IDX_PAM) # NoneItem
        /\ q_log[listeners[i]] = <<IntItem(i), protocol_at("SORT", IDX_PAM)>>
        /\ q_log[listeners[j]][1] = IntItem(j)

\* the configured protocols
Configured == {protocol_ids[i] : i \in 1..Len(protocol_ids)}

\* C9: a setup block of protocol P replaces the cached preamble of P and
\* leaves the cached preamble of every other configured protocol unchanged;
\* any other item changes no cache entry.
C9_SetupCachedPerProtocol ==
    [][RelayStep =>
          \A p \in Configured :
              protocol_at(p, IDX_PAM)' =
                  IF /\ isinstance_BS3BaseBlock(Taken)
                     /\ Taken.block_type = 0
                     /\ BLOCKCODE(Taken) = p
                  THEN Taken
                  ELSE protocol_at(p, IDX_PAM)]_vars

\* C10: a registration is given the smallest non-negative integer that is
\* not the id of a registered listener; it adds that one entry to the
\* registry and changes no entry that is there.
C10_SmallestUnusedId ==
    [][RegisterStep =>
          LET reply == q_log'[Requester][Len(q_log[Requester]) + 1]
          IN  /\ reply.kind = "int"
              /\ reply.num \notin DOMAIN listeners
              /\ \A m \in 0..(reply.num - 1) : m \in DOMAIN listeners
              /\ DOMAIN listeners' = DOMAIN listeners \cup {reply.num}
              /\ listeners'[reply.num] = Requester
              /\ \A i \in DOMAIN listeners : listeners'[i] = listeners[i]]_vars

\* two listeners are registered, each told its own id first
C10_Witness ==
    /\ Cardinality(DOMAIN listeners) >= 2
    /\ \A i \in DOMAIN listeners : q_log[listeners[i]][1] = IntItem(i)
    /\ \A i, j \in DOMAIN listeners : i # j => listeners[i] # listeners[j]

(***************************************************************************)
(* Properties of the reader's use of its output queue.                     *)
(***************************************************************************)
\* reader r stands in `self._out_q.put(blk)` (line 177) on a full queue
BlockedOnOutput(r) ==
    /\ pc[r] = "handle"
    /\ HandleBlock(r, car_data[r]).exc = ""
    /\ HandleBlock(r, car_data[r]).put # <<>>
    /\ full(out_q[r])

\* C13: a reader never waits in a put on its output queue, and its shutdown
\* is never ended by the queue being full, whatever the capacity of the
\* queue and whatever the consumer does.
C13_OutputNeverBlocks ==
    \A r \in Protocols : ~BlockedOnOutput(r) /\ crash[r] # "Full"

(***************************************************************************)
(* A multiplexer whose readers never run out of frames.                    *)
(***************************************************************************)
\* The items a get() has taken from _data_q are gone from the queue, and the
\* transport goes on delivering frames: while no listener is registered the
\* record of what was taken, and of the frames delivered whose blocks were
\* taken, is dropped, which leaves the state of every thread and of every
\* queue as it is
Forget ==
    /\ listeners = <<>>
    /\ pc["multi"] \in {"req", "data"}
    /\ q_taken["data_q"] > 0
    /\ q_log' = [q_log EXCEPT !["data_q"] =
                    SubSeq(@, q_taken["data_q"] + 1, Len(@))]
    /\ q_taken' = [q_taken EXCEPT !["data_q"] = 0]
    /\ n_frames' = Cardinality({i \in q_taken["data_q"] + 1..Len(q_log["data_q"]) :
                                 q_log["data_q"][i].kind = "block"})
    /\ n_got' = [r \in Protocols |-> 0]
    /\ n_rel' = [r \in Protocols |-> 0]
    /\ n_drop' = [r \in Protocols |-> 0]
    /\ UNCHANGED <<thread_vars, reader_vars, transport_vars, q_max, stop_vars,
                   n_gets, crash, stop_ret, multi_vars, bxpd, arg, ret>>

NextMultiFlow ==
    \/ NextMulti
    \/ Forget

SpecMultiFlow == InitMulti /\ [][NextMultiFlow]_vars

\* the scheduler runs the worker of the multiplexer whenever it can take a
\* step; the readers and the clients run at any speed
FairMultiFlow ==
    /\ SpecMultiFlow
    /\ WF_vars(M_start \/ M_run)

\* the request of add_listener(q) waits in _req_q
Pending(q) == \E i \in 1..Len(req_q) : req_q[i] = q

\* the worker has put the id of its registration on q
Answered(q) == \E i \in 1..Len(q_log[q]) : q_log[q][i].kind = "int"

\* C14: with the worker of the multiplexer scheduled fairly, every request
\* waiting in _req_q is answered in the end, also when the readers keep
\* _data_q from running empty.
C14_RegistrationServed ==
    \A q \in ListenerQueues : Pending(q) ~> Answered(q)

(***************************************************************************)
(* A multiplexer whose listeners are registered by concurrent callers.     *)
(***************************************************************************)
\* add_listener is called from any number of threads at a time, with any
\* queue, the queue of another call included, while the transport has no
\* frame for the readers
NextMultiAdd ==
    \/ M_start
    \/ M_run
    \/ \E r \in Protocols : R_begin(r)
    \/ \E q \in ListenerQueues : add_listener(q)
    \/ \E q \in ListenerQueues : add_join(q)
    \/ \E q \in ListenerQueues : add_put(q)
    \/ \E q \in ListenerQueues : add_return(q)

SpecMultiAdd == InitMulti /\ [][NextMultiAdd]_vars

\* the entries of _listeners that hold q
Entries(q) == {i \in DOMAIN listeners : listeners[i] = q}

\* the ids of registrations put on q
IdsPut(q) == {i \in 1..Len(q_log[q]) : q_log[q][i].kind = "int"}

\* C15: every add_listener(q) call that has returned has an entry of its own
\* in the registry and its id on q, however the calls and the worker
\* interleave.
C15_AddListenerSynchronous ==
    \A q \in ListenerQueues :
        /\ ad[q].done <= Cardinality(Entries(q))
        /\ ad[q].done <= Cardinality(IdsPut(q))

\* a call has returned while another one, made at the same time, waits for
\* its own return
C15_Witness ==
    \E q \in ListenerQueues, l \in ListenerQueues :
        /\ ad[q].done > 0
        /\ ad[l].join2 > 0

(***************************************************************************)
(* Tier 2 of BXPD: BS3BxpdBlockHeader and BS3BxpdSetupBlock.               *)
(***************************************************************************)
BS3BxpdBlockHeader_version == 3

BS3BxpdBlockHeader_from_data(data) ==
    Tier2Header_from_data(BS3BxpdBlockHeader_version, data)

\* unpack('<B' / '<H', data[at:at + w]): the value of the field
unpack_uint(data, at, w) ==
    LET f == unpack(<<w>>, Slice(data, at, at + w))
    IN  IF ~f.ok THEN f ELSE Ok(LE(f.v[1]))

\* the loop over the n channels of one kind (anchan, dichan, evchan), read
\* from data[at:]: '<HBH' and then the name of nlen bytes
\* [at: the place after the last channel, lst: the tuples]
RECURSIVE BxpdChannels(_, _, _, _)
BxpdChannels(data, at, n, lst) ==
    IF n = 0 THEN Ok([at |-> at, lst |-> lst])
    ELSE LET f == unpack(<<2, 1, 2>>, Slice(data, at, at + 5))
         IN  IF ~f.ok THEN f
             ELSE LET nlen == LE(f.v[3])
                      name == unpack(<<nlen>>, Slice(data, at + 5, at + 5 + nlen))
                  IN  IF ~name.ok THEN name
                      ELSE BxpdChannels(data, at + 5 + nlen, n - 1,
                               Append(lst, <<LE(f.v[1]), LE(f.v[2]), nlen, name.v[1]>>))

\* the count '<H' of one kind of channel and its channels
BxpdChannelList(data, at) ==
    LET n == unpack_uint(data, at, 2)
    IN  IF ~n.ok THEN n ELSE BxpdChannels(data, at + 2, n.v, <<>>)

\* the loop over the n groups: '<H' nlen, the name, '<H' grp_sz and grp_sz
\* channel numbers '<H'
RECURSIVE BxpdGroups(_, _, _, _)
BxpdGroups(data, at, n, lst) ==
    IF n = 0 THEN Ok([at |-> at, lst |-> lst])
    ELSE LET nlen == unpack_uint(data, at, 2)
         IN  IF ~nlen.ok THEN nlen
             ELSE LET name == unpack(<<nlen.v>>, Slice(data, at + 2, at + 2 + nlen.v))
                      at2  == at + 2 + nlen.v
                      grp_sz == unpack_uint(data, at2, 2)
                  IN  IF ~name.ok THEN name
                      ELSE IF ~grp_sz.ok THEN grp_sz
                      ELSE LET channels ==
                                   unpack([i \in 1..grp_sz.v |-> 2],
                                          Slice(data, at2 + 2, at2 + 2 + 2 * grp_sz.v))
                           IN  IF ~channels.ok THEN channels
                               ELSE BxpdGroups(data, at2 + 2 + 2 * grp_sz.v, n - 1,
                                        Append(lst, <<nlen.v, name.v[1], grp_sz.v,
                                                      [i \in 1..grp_sz.v |->
                                                          LE(channels.v[i])]>>))

\* BS3BxpdSetupBlock.from_data(bxpd_h, data) for a str `data`; the sample
\* rates ('%dd', 8 bytes each) are kept as byte strings
BS3BxpdSetupBlock_from_data(bxpd_h, data) ==
    LET nsrate == unpack_uint(data, 0, 1)
    IN  IF ~nsrate.ok THEN nsrate
        ELSE LET srates == unpack([i \in 1..nsrate.v |-> 8],
                                  Slice(data, 1, 1 + 8 * nsrate.v))
             IN  IF ~srates.ok THEN srates
        ELSE LET anchan == BxpdChannelList(data, 1 + 8 * nsrate.v)
             IN  IF ~anchan.ok THEN anchan
        ELSE LET dichan == BxpdChannelList(data, anchan.v.at)
             IN  IF ~dichan.ok THEN dichan
        ELSE LET evchan == BxpdChannelList(data, dichan.v.at)
             IN  IF ~evchan.ok THEN evchan
        ELSE LET ngroup == unpack_uint(data, evchan.v.at, 2)
             IN  IF ~ngroup.ok THEN ngroup
        ELSE LET group == BxpdGroups(data, evchan.v.at + 2, ngroup.v, <<>>)
             IN  IF ~group.ok THEN group
        ELSE Ok([header |-> bxpd_h,
                 srate_lst |-> srates.v,
                 anchan_lst |-> anchan.v.lst,
                 dichan_lst |-> dichan.v.lst,
                 evchan_lst |-> evchan.v.lst,
                 group_lst |-> group.v.lst])

\* the statements after one that may raise: F of its value, or its exception;
\* the result r is computed once
Then(r, F(_)) == CHOOSE y \in {IF ~x.ok THEN x ELSE F(x.v) : x \in {r}} : TRUE

\* struct.unpack('<%dX' % n, data) for a field X of w bytes, as byte strings
unpack_array(w, n, data) ==
    IF Len(data) # w * n THEN Raise("struct.error")
    ELSE Ok([i \in 1..n |-> SubSeq(data, (i - 1) * w + 1, i * w)])

\* the value of a two byte field read as 'h'
int16(n) == IF n >= 32768 THEN n - 65536 ELSE n

\* unpack('<Q', data[at:at + 8]): the value of the field, and 256^3 for
\* every value from 256^3 on; no string of this model is that long
unpack_uint64(data, at) ==
    LET f == unpack(<<8>>, Slice(data, at, at + 8))
    IN  IF ~f.ok THEN f
        ELSE IF \E i \in 4..8 : f.v[1][i] # 0 THEN Ok(256 ^ 3)
        ELSE Ok(LE(SubSeq(f.v[1], 1, 3)))

\* the body of the loop over the analog chunks in from_data, read from
\* data[at:]: the length '<B', after 255 the length '<Q', and the samples
\* '<%dh'  [at: the place after the chunk, values: the samples]
anchan_from_data(data, at) ==
    Then(unpack_uint(data, at, 1), LAMBDA b :
    Then(IF b = 255 THEN unpack_uint64(data, at + 1) ELSE Ok(b), LAMBDA anchan_len :
    Then(unpack_array(2, anchan_len,
             Slice(data, IF b = 255 THEN at + 9 ELSE at + 1,
                         (IF b = 255 THEN at + 9 ELSE at + 1) + anchan_len * 2)),
         LAMBDA vals :
    Ok([at |-> (IF b = 255 THEN at + 9 ELSE at + 1) + anchan_len * 2,
        values |-> [i \in 1..anchan_len |-> int16(LE(vals[i]))]]))))

RECURSIVE anchan_lst_from_data(_, _, _, _)
anchan_lst_from_data(data, at, n, lst) ==
    IF n = 0 THEN Ok([at |-> at, lst |-> lst])
    ELSE Then(anchan_from_data(data, at), LAMBDA c :
              anchan_lst_from_data(data, c.at, n - 1, Append(lst, c.values)))

\* the loop over n digital or event edges: '<HQB' each
RECURSIVE edges_from_data(_, _, _, _)
edges_from_data(data, at, n, lst) ==
    IF n = 0 THEN Ok([at |-> at, lst |-> lst])
    ELSE Then(unpack(<<2, 8, 1>>, Slice(data, at, at + 11)), LAMBDA f :
              edges_from_data(data, at + 11, n - 1,
                  Append(lst, <<LE(f[1]), LE(f[2]), LE(f[3])>>)))

\* BS3BxpdDataBlock.from_data(bxpd_h, data) for a str `data`
BS3BxpdDataBlock_from_data(bxpd_h, data) ==
    Then(unpack(<<8, 8>>, Slice(data, 0, 16)), LAMBDA time_stamp :
    Then(unpack_uint(data, 16, 1), LAMBDA nsrate :
    Then(IF nsrate > 0
         THEN unpack_array(8, nsrate, Slice(data, 17, 17 + 8 * nsrate))
         ELSE Ok(<<>>), LAMBDA srates :
    Then(unpack_uint(data, 17 + 8 * nsrate, 2), LAMBDA nanchan :
    Then(anchan_lst_from_data(data, 19 + 8 * nsrate, nanchan, <<>>), LAMBDA anchan :
    Then(unpack_uint(data, anchan.at, 4), LAMBDA ndichan :
    Then(edges_from_data(data, anchan.at + 4, ndichan, <<>>), LAMBDA dichan :
    Then(unpack_uint(data, dichan.at, 4), LAMBDA nevchan :
    Then(edges_from_data(data, dichan.at + 4, nevchan, <<>>), LAMBDA evchan :
    Ok([bxpd_h |-> bxpd_h,
        time_stamp |-> <<LE(time_stamp[1]), LE(time_stamp[2])>>,
        srate_lst |-> [i \in 1..nsrate |-> LE(srates[i])],
        anchan_lst |-> anchan.lst,
        dichan_lst |-> dichan.lst,
        evchan_lst |-> evchan.lst]))))))))))

(***************************************************************************)
(* Frames sent to a BS3Reader.                                             *)
(***************************************************************************)
WireBxpdHeader(code) ==
    U(BS3DataBlockHeader_version, 1) \o U(0, 4)
    \o U(BS3DataBlockHeader_header_size, 2) \o U(0, 2) \o U(0, 8) \o U(0, 8)
    \o U(1, 1) \o code \o U(0, 8)

\* one analog channel <<0, 0, "">> and one group "" of that channel
WireBxpdSetup ==
    U(0, 1) \o U(1, 2) \o U(0, 2) \o U(0, 1) \o U(0, 2) \o U(0, 2) \o U(0, 2)
    \o U(1, 2) \o U(0, 2) \o U(1, 2) \o U(0, 2)

F_bxpd_setup == WireBxpdHeader(<<66, 88, 80, 68>>) \o <<3, 0>> \o WireBxpdSetup
F_bxpd_setup_short == WireBxpdHeader(<<66, 88, 80, 68>>) \o <<3, 0>> \o U(0, 1)
F_bxpd_other_type == WireBxpdHeader(<<66, 88, 80, 68>>) \o <<3, 2>>
F_bxpd_foreign == WireBxpdHeader(<<83, 79, 82, 84>>) \o <<1, 1>>

FramesBxpd == {F_bxpd_setup, F_bxpd_setup_short, F_bxpd_other_type, F_bxpd_foreign}

(***************************************************************************)
(* BS3Reader: the reader of BXPD blocks, with its own add_listener.        *)
(* Nothing calls stop() on it here, so the loop is never left.             *)
(***************************************************************************)
\* the handle startReader returns to the BS3Reader thread
BxpdHandle == 3

\* the frames delivered to a BS3Reader: one more than to the other readers,
\* for two setup blocks and a data block
MaxBxpdFrames == MaxFrames + 1

\* the groups a caller of add_listener asks for
BxpdGroupsAsked == {0, 1}

\* the k-th setup block the reader has decoded, as an item on a queue
SetupItem(k) == Item("block", "BXPD", k)

\* the other variables a step of BS3Reader or of a caller of its
\* add_listener leaves alone
bxpd_others == <<thread_vars, reader_vars, wire, q_taken, q_max, stop_vars,
                 n_gets, n_got, n_rel, n_drop, crash, stop_ret, protocol_ids,
                 protocol_ref, protocol_obj, listeners, req_q, req_unfinished,
                 m_i, m_puts, ad, last_setup, arg, ret>>

\* Thread.start()
B_start ==
    /\ bxpd.pc = "new"
    /\ bxpd' = [bxpd EXCEPT !.pc = "start_bs"]
    /\ UNCHANGED <<bxpd_others, handles, borrowed, q_log, n_frames, n_adds>>

\* start_blockstream(), self._serving = True, self._is_shutdown.clear()
B_begin ==
    /\ bxpd.pc = "start_bs"
    /\ bxpd' = [bxpd EXCEPT !.pc = "loop", !.blkstr = TRUE,
                            !.reader_id = BxpdHandle, !.serving = TRUE,
                            !.is_shutdown = FALSE]
    /\ handles' = handles \cup {BxpdHandle}
    /\ UNCHANGED <<bxpd_others, borrowed, q_log, n_frames, n_adds>>

\* while self._serving:
B_loop ==
    /\ bxpd.pc = "loop"
    /\ bxpd.serving
    /\ bxpd' = [bxpd EXCEPT !.pc = "input"]
    /\ UNCHANGED <<bxpd_others, handles, borrowed, q_log, n_frames, n_adds>>

\* What the body of `if not self._input_q.empty():` does with the request
\* item = <<q, group>>: [exc, listeners: _listeners afterwards, q: the local
\* q afterwards, puts: the <<queue, item>> put, in order]; id is lst_id
HandleInput(item) ==
    LET setup == bxpd.setup_block[1]
        group == item[2]
    IN  IF group < Len(setup.group_lst)
        THEN LET id == Len(bxpd.listeners)
                 g == setup.group_lst[group + 1][4]
             IN  IF g = <<>> \/ g[1] >= Len(setup.anchan_lst)
                 THEN [exc |-> "IndexError", listeners |-> bxpd.listeners,
                       q |-> item[1], puts |-> <<>>]
                 ELSE [exc |-> "",
                       listeners |-> Append(bxpd.listeners,
                                        [q |-> item[1], g |-> g,
                                         sri |-> setup.anchan_lst[g[1] + 1][2]]),
                       q |-> item[1],
                       puts |-> << <<item[1], IntItem(id)>>,
                                   <<item[1], SetupItem(bxpd.n_setup)>> >>]
        ELSE IF bxpd.q = ""
             THEN [exc |-> "UnboundLocalError", listeners |-> bxpd.listeners,
                   q |-> bxpd.q, puts |-> <<>>]
             ELSE [exc |-> "", listeners |-> bxpd.listeners, q |-> bxpd.q,
                   puts |-> << <<bxpd.q, NoneItem>> >>]

\* `if not self._input_q.empty():` and its body, task_done() last; a put on
\* a full queue waits, and as nothing takes from the queues of the listeners
\* here the thread then stays in that put ("blocked")
B_input ==
    /\ bxpd.pc = "input"
    /\ IF bxpd.input_q = <<>>
       THEN /\ bxpd' = [bxpd EXCEPT !.pc = "poll"]
            /\ UNCHANGED q_log
       ELSE \E h \in {HandleInput(Head(bxpd.input_q))} :
               IF h.exc # ""
               THEN /\ bxpd' = [bxpd EXCEPT !.pc = "crashed", !.crash = h.exc,
                                            !.input_q = Tail(@), !.q = h.q]
                    /\ UNCHANGED q_log
               ELSE \E p \in {PutAll(q_log, h.puts)} :
                    /\ q_log' = p.log
                    /\ bxpd' = IF p.rest = <<>>
                               THEN [bxpd EXCEPT !.pc = "poll",
                                                 !.input_q = Tail(@),
                                                 !.listeners = h.listeners,
                                                 !.q = h.q,
                                                 !.unfinished = @ - 1]
                               ELSE [bxpd EXCEPT !.pc = "blocked",
                                                 !.input_q = Tail(@),
                                                 !.listeners = h.listeners,
                                                 !.q = h.q]
    /\ UNCHANGED <<bxpd_others, handles, borrowed, n_frames, n_adds>>

\* readBlock(..., self.poll_timeout) returns false: the timeout has passed;
\* with a negative timeout the call waits until a frame arrives
B_poll_timeout ==
    /\ bxpd.pc = "poll"
    /\ bxpd.poll_timeout >= 0
    /\ bxpd' = [bxpd EXCEPT !.pc = "loop"]
    /\ UNCHANGED <<bxpd_others, handles, borrowed, q_log, n_frames, n_adds>>

\* What the body of `if b_got_block:` decodes from the frame `data`:
\* [exc, setup: <<>> or the setup block decoded, data: <<>> or the frame
\* header and the data block decoded]
HandleBxpd(data) ==
    LET nothing(exc) == [exc |-> exc, setup |-> <<>>, data |-> <<>>]
    IN
    IF Len(data) < BS3DataBlockHeader_len
    THEN nothing("BS3Error")
    ELSE LET at    == BS3DataBlockHeader_len
             blk_h == BS3DataBlockHeader_from_data(Slice(data, 0, at))
         IN  IF ~blk_h.ok THEN nothing(blk_h.exc)
             ELSE IF blk_h.v.block_code # <<66, 88, 80, 68>>
             THEN nothing("")
             ELSE LET hlen   == calcsize(Tier2_signature)
                      bxpd_h == BS3BxpdBlockHeader_from_data(Slice(data, at, at + hlen))
                  IN  IF ~bxpd_h.ok THEN nothing(bxpd_h.exc)
                      ELSE IF bxpd_h.v.block_type = 0
                      THEN LET setup_block ==
                                   BS3BxpdSetupBlock_from_data(
                                       bxpd_h.v, Slice(data, at + hlen, Len(data)))
                           IN  IF ~setup_block.ok
                               THEN nothing(setup_block.exc)
                               ELSE [exc |-> "", setup |-> <<setup_block.v>>,
                                     data |-> <<>>]
                      ELSE IF bxpd_h.v.block_type = 1
                      THEN LET data_block ==
                                   BS3BxpdDataBlock_from_data(
                                       bxpd_h.v, Slice(data, at + hlen, Len(data)))
                           IN  IF ~data_block.ok
                               THEN nothing(data_block.exc)
                               ELSE [exc |-> "", setup |-> <<>>,
                                     data |-> <<blk_h.v, data_block.v>>]
                      ELSE nothing("")

\* a tuple put on a queue, its elements in group_lst
TupleItem(elements) == [Item("tuple", "BXPD", 0) EXCEPT !.group_lst = elements]

\* srate_lst[sri] and anchan_lst[i] of a data block
in_range(i, lst) == i < Len(lst)

\* this_blk = tuple([blk_h.block_index, data_block.srate_lst[sri]] +
\*                  [data_block.anchan_lst[i] for i in g])
this_blk(blk_h, data_block, g, sri) ==
    TupleItem(<<blk_h.block_index, data_block.srate_lst[sri + 1]>>
              \o [k \in 1..Len(g) |-> data_block.anchan_lst[g[k] + 1]])

\* the indexing of this_blk raises IndexError
this_blk_raises(data_block, g, sri) ==
    \/ ~in_range(sri, data_block.srate_lst)
    \/ \E k \in 1..Len(g) : ~in_range(g[k], data_block.anchan_lst)

\* `for q, g, sri in self._listeners.values():` over a data block; the test
\* `len(data_block.anchan_lst) < g` compares an int with a tuple and is true
\* for every listener.  [exc, puts: the <<queue, tuple>> put before exc]
RECURSIVE BxpdData(_, _, _, _)
BxpdData(blk_h, data_block, lst, puts) ==
    IF lst = <<>> THEN [exc |-> "", puts |-> puts]
    ELSE IF this_blk_raises(data_block, Head(lst).g, Head(lst).sri)
    THEN [exc |-> "IndexError", puts |-> puts]
    ELSE BxpdData(blk_h, data_block, Tail(lst),
                  Append(puts, <<Head(lst).q,
                                 this_blk(blk_h, data_block, Head(lst).g,
                                          Head(lst).sri)>>))

\* readBlock returns true: the frame is handled and released, or the
\* exception it raises ends the thread with the frame unreleased; a setup
\* block is kept, the event is set and the block is put on every listener;
\* of a data block every listener is put its tuple; a put on a full queue
\* waits, with the frame unreleased
B_pass ==
    /\ bxpd.pc = "poll"
    /\ n_frames < MaxBxpdFrames
    /\ n_frames' = n_frames + 1
    /\ \E f \in wire :
       \E h \in {HandleBxpd(f)} :
          IF h.exc # ""
          THEN /\ bxpd' = [bxpd EXCEPT !.pc = "crashed", !.crash = h.exc]
               /\ borrowed' = borrowed \cup {BxpdHandle}
               /\ UNCHANGED q_log
          ELSE IF h.setup # <<>>
          THEN \E p \in {PutAll(q_log,
                             [i \in 1..Len(bxpd.listeners) |->
                                 <<bxpd.listeners[i].q,
                                   SetupItem(bxpd.n_setup + 1)>>])} :
                  /\ q_log' = p.log
                  /\ bxpd' = [bxpd EXCEPT
                                 !.pc = IF p.rest = <<>> THEN "loop" ELSE "blocked",
                                 !.setup_block = h.setup,
                                 !.n_setup = @ + 1,
                                 !.is_initialised = TRUE]
                  /\ borrowed' = IF p.rest = <<>> THEN borrowed
                                 ELSE borrowed \cup {BxpdHandle}
          ELSE IF h.data # <<>>
          THEN \E d \in {BxpdData(h.data[1], h.data[2], bxpd.listeners, <<>>)} :
               \E p \in {PutAll(q_log, d.puts)} :
                  /\ q_log' = p.log
                  /\ IF p.rest # <<>>
                     THEN /\ bxpd' = [bxpd EXCEPT !.pc = "blocked"]
                          /\ borrowed' = borrowed \cup {BxpdHandle}
                     ELSE IF d.exc # ""
                     THEN /\ bxpd' = [bxpd EXCEPT !.pc = "crashed", !.crash = d.exc]
                          /\ borrowed' = borrowed \cup {BxpdHandle}
                     ELSE /\ bxpd' = [bxpd EXCEPT !.pc = "loop"]
                          /\ UNCHANGED borrowed
          ELSE /\ bxpd' = [bxpd EXCEPT !.pc = "loop"]
               /\ UNCHANGED <<q_log, borrowed>>
    /\ UNCHANGED <<bxpd_others, handles, n_adds>>

\* one step of the BS3Reader thread
B_run ==
    \/ B_begin
    \/ B_loop
    \/ B_input
    \/ B_poll_timeout
    \/ B_pass

\* BS3Reader.add_listener(q, group), called by one client, a call at a time:
\* if self._is_initialised.is_set() is False: raise BS3Error
B_add_listener(q, group) ==
    /\ n_adds < MaxAdds
    /\ bxpd.pc # "none"
    /\ bxpd.call = <<>>
    /\ n_adds' = n_adds + 1
    /\ bxpd' = IF is_set_is_False(bxpd.is_initialised)
               THEN bxpd
               ELSE [bxpd EXCEPT !.call = <<[q |-> q, group |-> group, at |-> "join1"]>>]
    /\ UNCHANGED <<bxpd_others, handles, borrowed, q_log, n_frames>>

\* the first self._input_q.join() returns
B_add_join ==
    /\ bxpd.call # <<>>
    /\ bxpd.call[1].at = "join1"
    /\ bxpd.unfinished = 0
    /\ bxpd' = [bxpd EXCEPT !.call[1].at = "put"]
    /\ UNCHANGED <<bxpd_others, handles, borrowed, q_log, n_frames, n_adds>>

\* self._input_q.put((q, int(group)))
B_add_put ==
    /\ bxpd.call # <<>>
    /\ bxpd.call[1].at = "put"
    /\ bxpd' = [bxpd EXCEPT !.call[1].at = "join2",
                            !.input_q = Append(@, <<bxpd.call[1].q,
                                                    bxpd.call[1].group>>),
                            !.unfinished = @ + 1]
    /\ UNCHANGED <<bxpd_others, handles, borrowed, q_log, n_frames, n_adds>>

\* the second self._input_q.join() returns, and add_listener with it
B_add_return ==
    /\ bxpd.call # <<>>
    /\ bxpd.call[1].at = "join2"
    /\ bxpd.unfinished = 0
    /\ bxpd' = [bxpd EXCEPT !.call = <<>>]
    /\ UNCHANGED <<bxpd_others, handles, borrowed, q_log, n_frames, n_adds>>

\* the poll_timeout a BS3Reader is constructed with: int(poll_timeout) of
\* any int, the default 1000 among them
PollTimeouts == {-1, 0, 1000}

\* BS3Reader(poll_timeout)
InitBxpd ==
    /\ InitCommon
    /\ NoCall
    /\ \E t \in PollTimeouts : bxpd = BS3Reader_init("new", t)
    /\ pc = [t \in Threads |-> "none"]
    /\ out_q = [r \in Protocols |-> "none"]
    /\ wire = FramesBxpd
    /\ protocol_ids = <<>>
    /\ protocol_ref = <<>>
    /\ protocol_obj = <<>>
    /\ q_max = [q \in Queues |-> 0]

NextBxpd ==
    \/ B_start
    \/ B_run
    \/ \E q \in ListenerQueues, group \in BxpdGroupsAsked : B_add_listener(q, group)
    \/ B_add_join
    \/ B_add_put
    \/ B_add_return

SpecBxpd == InitBxpd /\ [][NextBxpd]_vars

(***************************************************************************)
(* add_listener on a multiplexer or on a BS3Reader, from construction on.  *)
(***************************************************************************)
InitAdd == InitMulti \/ InitBxpd

NextAdd ==
    \/ NextMultiAdd
    \/ NextBxpd

SpecAdd == InitAdd /\ [][NextAdd]_vars

\* add_listener has been called on a multiplexer whose event
\* _is_initialised is still clear
UninitialisedMulti ==
    /\ pc["multi"] # "none"
    /\ ~is_initialised["multi"]
    /\ n_adds > 0

\* add_listener has been called on a BS3Reader that has decoded no setup
\* block yet
UninitialisedBxpd ==
    /\ bxpd.pc # "none"
    /\ ~bxpd.is_initialised
    /\ n_adds > 0

\* C16: an add_listener call made while _is_initialised is clear ends where
\* it begins: no request is put on the request queue, no listener is
\* registered, nothing is put on a queue and no call is left waiting.
C16_UninitialisedAddFails ==
    [][(/\ n_adds' = n_adds + 1
        /\ \/ pc["multi"] # "none" /\ ~is_initialised["multi"]
           \/ bxpd.pc # "none" /\ ~bxpd.is_initialised)
       => /\ req_q' = req_q
          /\ req_unfinished' = req_unfinished
          /\ listeners' = listeners
          /\ ad' = ad
          /\ bxpd' = bxpd
          /\ q_log' = q_log]_vars

\* such a call has been made, on the multiplexer before run() set the
\* event or on the BS3Reader before the first setup block
C16_Witness == UninitialisedMulti \/ UninitialisedBxpd

(***************************************************************************)
(* Order of the blocks of one reader.                                      *)
(***************************************************************************)
\* the blocks of protocol r among the items put on a queue, in order
Blocks(log, r) == SelectSeq(log, LAMBDA x : x.kind = "block" /\ x.code = r)

\* s is a run of consecutive elements of t
IsSegment(s, t) ==
    \E k \in 0..(Len(t) - Len(s)) : SubSeq(t, k + 1, k + Len(s)) = s

\* C17: on every listener's queue the blocks of one reader stand in the
\* order in which the reader decoded them from its frames and put them on
\* _data_q, with none left out in between.
C17_OrderPerReader ==
    \A q \in ListenerQueues, r \in Protocols :
        IsSegment(Blocks(q_log[q], r), Blocks(q_log["data_q"], r))

\* a listener has received two different blocks of one reader
C17_Witness ==
    \E q \in ListenerQueues, r \in Protocols :
        /\ Len(Blocks(q_log[q], r)) >= 2
        /\ Blocks(q_log[q], r)[1] # Blocks(q_log[q], r)[2]

(***************************************************************************)
(* Release of the frame buffers.                                           *)
(***************************************************************************)
\* C18: a reader that is not handling a frame has released every frame the
\* transport lent it, each of them once.
C18_EveryFrameReleased ==
    \A r \in Protocols : pc[r] # "handle" => n_rel[r] = n_got[r]

(***************************************************************************)
(* Repeated stop().                                                        *)
(***************************************************************************)
\* a stop() call on t waits on an event that no thread will set any more
WaitsForEver(t) ==
    /\ sp_wait[t].post > 0
    /\ pc[t] = "crashed"
    /\ ~is_shutdown[t]

\* C19: however many stop() calls are made on a started reader, none of them
\* is left waiting for ever, the output queue gets at most one sentinel and
\* the reader's handle is released at most once.
C19_StopIdempotent ==
    \A r \in Protocols :
        /\ ~WaitsForEver(r)
        /\ Sentinels(r) <= 1
        /\ pc[r] = "done" => Handle(r) \notin handles

(***************************************************************************)
(* stop() before start().                                                  *)
(***************************************************************************)
\* a stop() call has been made on t, whose thread was never started, and no
\* call is waiting
StoppedUnstarted(t) ==
    /\ pc[t] = "new"
    /\ n_stops > 0
    /\ sp_wait[t].pre = 0

\* C20: while the thread of a reader or of a multiplexer has not been
\* started, a stop() call on it finds the event set, so that its wait
\* returns at once, no handle of the transport is open and no queue has
\* been put on.
C20_StopBeforeStart ==
    \A t \in Threads :
        pc[t] = "new" =>
            /\ is_shutdown[t]
            /\ handles = {}
            /\ \A q \in Queues : q_log[q] = <<>>

\* stop() has returned on a reader or on a multiplexer that was never
\* started
C20_Witness == \E t \in Threads : StoppedUnstarted(t)

(***************************************************************************)
(* The timeout of the polls.                                               *)
(***************************************************************************)
\* C21: whenever a reader thread is in readBlock, the timeout it passed is
\* finite and not negative, so that the call returns without a frame and
\* the loop tests _serving again.
C21_PollTimeoutFinite ==
    /\ \A r \in Protocols : pc[r] = "poll" => R_poll_timeout_ms >= 0
    /\ bxpd.pc = "poll" => bxpd.poll_timeout >= 0

(***************************************************************************)
(* The constructors of the two thread classes and the registry lookup.     *)
(* Strings are sequences of character codes.                               *)
(***************************************************************************)
\* str.upper()
upper(s) == [i \in 1..Len(s) |-> IF s[i] \in 97..122 THEN s[i] - 32 ELSE s[i]]

\* the keys of PROTOCOLS: 'BXPD', 'POSI', 'SORT'
PROTOCOLS_keys == {<<66, 88, 80, 68>>, CodeBytes("POSI"), CodeBytes("SORT")}

\* the lookup that finds every identifier
in_PROTOCOLS_any(id) == TRUE

\* `id in PROTOCOLS`
in_PROTOCOLS(id) == id \in PROTOCOLS_keys

\* the protocol identifiers passed to the constructors: 'sort', 'SORT',
\* 'Sort', 'posi', 'POSI', 'woot', '' and 'sorts'
CodesPassed ==
    {<<115, 111, 114, 116>>, <<83, 79, 82, 84>>, <<83, 111, 114, 116>>,
     <<112, 111, 115, 105>>, <<80, 79, 83, 73>>, <<119, 111, 111, 116>>,
     <<>>, <<115, 111, 114, 116, 115>>}

\* the protocol lists passed to the multiplexer: up to two identifiers
ListsPassed ==
    {<<>>} \cup {<<a>> : a \in CodesPassed}
           \cup {<<a, b>> : a \in CodesPassed, b \in CodesPassed}

\* the protocols of the model that the identifiers ids name, in their order
RECURSIVE ProtocolsOf(_)
ProtocolsOf(ids) ==
    IF ids = <<>> THEN <<>>
    ELSE LET rest == ProtocolsOf(Tail(ids))
         IN  IF \E p \in Protocols : CodeBytes(p) = Head(ids)
             THEN <<CHOOSE p \in Protocols : CodeBytes(p) = Head(ids)>> \o rest
             ELSE rest

\* BS3SingleProtocolReader.__init__(protocol, out_q): the two tests, in the
\* order of the code; out_q "none" is an object that is no Queue
BS3SingleProtocolReader_init(protocol, q) ==
    IF ~in_PROTOCOLS(upper(protocol)) THEN Raise("BS3Error")
    ELSE IF q = "none" THEN Raise("BS3Error")
    ELSE Ok(<<upper(protocol)>>)

\* the loop of BS3MultiProtocolReader.__init__ over protocols[i..]:
\* the first unknown identifier raises
RECURSIVE BS3MultiProtocolReader_init(_, _)
BS3MultiProtocolReader_init(protocols, ids) ==
    IF protocols = <<>> THEN Ok(ids)
    ELSE IF ~in_PROTOCOLS(upper(Head(protocols))) THEN Raise("BS3Error")
    ELSE BS3MultiProtocolReader_init(Tail(protocols),
                                     Append(ids, upper(Head(protocols))))

\* the other variables a constructor leaves alone
new_others == <<serving, is_shutdown, is_initialised, rid, bs_lib, car_data,
                transport_vars, queue_vars, stop_vars, ghost_vars, listeners,
                req_q, req_unfinished, m_i, m_puts, ad, n_adds, last_setup,
                bxpd, arg>>

\* BS3SingleProtocolReader(protocol, out_q)
new_single ==
    /\ arg # <<>> /\ ret = <<>>
    /\ arg.cls = "single"
    /\ ret' = BS3SingleProtocolReader_init(arg.protocol, arg.out_q)
    /\ IF ret'.ok
       THEN /\ pc' = [t \in Threads |->
                       IF <<t>> = ProtocolsOf(ret'.v) THEN "new" ELSE pc[t]]
            /\ out_q' = [r \in Protocols |->
                          IF <<r>> = ProtocolsOf(ret'.v) THEN arg.out_q
                          ELSE out_q[r]]
       ELSE UNCHANGED <<pc, out_q>>
    /\ UNCHANGED <<new_others, protocol_ids, protocol_ref, protocol_obj>>

\* BS3MultiProtocolReader(protocols)
new_multi ==
    /\ arg # <<>> /\ ret = <<>>
    /\ arg.cls = "multi"
    /\ ret' = BS3MultiProtocolReader_init(arg.protocol, <<>>)
    /\ IF ret'.ok
       THEN /\ pc' = [pc EXCEPT !["multi"] = "new"]
            /\ protocol_ids' = ProtocolsOf(ret'.v)
            /\ protocol_ref' = protocol_dict(protocol_ids').ref
            /\ protocol_obj' = protocol_dict(protocol_ids').obj
       ELSE UNCHANGED <<pc, protocol_ids, protocol_ref, protocol_obj>>
    /\ UNCHANGED <<new_others, out_q>>

\* no object exists yet and one constructor call is about to be made
InitNew ==
    /\ InitCommon
    /\ bxpd = BS3Reader_init("none", 0)
    /\ pc = [t \in Threads |-> "none"]
    /\ out_q = [r \in Protocols |-> "none"]
    /\ wire = {}
    /\ protocol_ids = <<>>
    /\ protocol_ref = <<>>
    /\ protocol_obj = <<>>
    /\ q_max = [q \in Queues |-> 0]
    /\ ret = <<>>
    /\ \/ \E c \in CodesPassed, q \in {"Q", "none"} :
             arg = [cls |-> "single", protocol |-> c, out_q |-> q]
       \/ \E l \in ListsPassed :
             arg = [cls |-> "multi", protocol |-> l, out_q |-> "none"]

NextNew ==
    \/ new_single
    \/ new_multi

SpecNew == InitNew /\ [][NextNew]_vars

\* the call under test names a protocol that, upper-cased, is no key of
\* PROTOCOLS
UnknownPassed ==
    IF arg.cls = "single" THEN upper(arg.protocol) \notin PROTOCOLS_keys
    ELSE \E i \in 1..Len(arg.protocol) : upper(arg.protocol[i]) \notin PROTOCOLS_keys

\* C24: a constructor called with a protocol identifier that is no key of
\* the registry after upper-casing raises BS3Error, and then no thread
\* object exists, no transport handle is open and the library is not loaded.
C24_UnknownProtocolFails ==
    (ret # <<>> /\ UnknownPassed) =>
        /\ ~ret.ok
        /\ ret.exc = "BS3Error"
        /\ \A t \in Threads : pc[t] = "none"
        /\ handles = {}
        /\ \A r \in Protocols : ~bs_lib[r]

\* a constructor has been called with an unknown identifier among its
\* protocols
C24_Witness == ret # <<>> /\ UnknownPassed

(***************************************************************************)
(* struct.pack, and the frame header written and read back.                *)
(***************************************************************************)
PyInt(n) == [t |-> "int", n |-> n]

\* the bytes of one packed field: an integer in w little-endian bytes, a
\* string cut or padded with NUL to w bytes
PackField(x, w) ==
    IF x.t = "int" THEN U(x.n, w)
    ELSE [i \in 1..w |-> IF i <= Len(x.b) THEN x.b[i] ELSE 0]

RECURSIVE PackFields(_, _)
PackFields(signature, args) ==
    IF signature = <<>> THEN <<>>
    ELSE PackField(Head(args), Head(signature))
         \o PackFields(Tail(signature), Tail(args))

\* struct.pack(signature, *args) for a '<' format given by its field widths,
\* strs the positions of its 's' fields: struct.error unless there is one
\* argument per field, of the field's type and, for the one and two byte
\* fields, within its range; the integers of this model are not negative
pack(signature, strs, args) ==
    IF Len(args) # Len(signature) THEN Raise("struct.error")
    ELSE IF \E i \in 1..Len(args) : (i \in strs) # (args[i].t = "str")
    THEN Raise("struct.error")
    ELSE IF \E i \in 1..Len(args) :
               /\ i \notin strs
               /\ \/ signature[i] = 1 /\ args[i].n > 255
                  \/ signature[i] = 2 /\ args[i].n > 65535
    THEN Raise("struct.error")
    ELSE Ok(PackFields(signature, args))

\* the positions of the 's' fields of BS3DataBlockHeader.signature
BS3DataBlockHeader_strs == {8}

\* BS3DataBlockHeader.payload
BS3DataBlockHeader_payload(h) ==
    pack(BS3DataBlockHeader_signature, BS3DataBlockHeader_strs,
         <<PyInt(BS3DataBlockHeader_version),
           PyInt(h.block_size),
           PyInt(BS3DataBlockHeader_header_size),
           PyInt(h.writer_id),
           PyInt(h.block_index),
           PyInt(h.time_stamp),
           PyStr(h.block_code),
           PyInt(0)>>)

\* the header values written: BS3DataBlockHeader(block_size, writer_id,
\* block_index, time_stamp, block_code)
HeadersPassed ==
    [block_size  : {31, 38, 300},
     writer_id   : {0, 1},
     block_index : {0, 1, 65536},
     time_stamp  : {0, 5},
     block_code  : {CodeBytes("WOOT"), CodeBytes("SORT"), CodeBytes("POSI")}]

\* the byte strings read: frame headers of version 2 and 3 and type code 0
\* and 1, whole, cut short and followed by two more bytes
HeaderLengths == {0, 30, 31, 37, 38, 40}

HeaderDataPassed ==
    {Slice(WireHeader(ver, tcd, code, 40) \o <<1, 1>>, 0, n) :
        ver \in {2, 3}, tcd \in {0, 1}, code \in {"SORT", "WOOT"},
        n \in HeaderLengths}

\* the other variables a call of a pure function leaves alone
call_others == <<new_others, pc, out_q, protocol_ids, protocol_ref,
                 protocol_obj>>

\* BS3DataBlockHeader.from_data(BS3DataBlockHeader(...).payload())
header_round_trip ==
    /\ arg # <<>> /\ ret = <<>>
    /\ arg.cls = "header"
    /\ \E enc \in {BS3DataBlockHeader_payload(arg.h)} :
          ret' = IF enc.ok THEN BS3DataBlockHeader_from_data(enc.v) ELSE enc
    /\ UNCHANGED call_others

\* BS3DataBlockHeader.from_data(data)
header_from_data ==
    /\ arg # <<>> /\ ret = <<>>
    /\ arg.cls = "data"
    /\ ret' = BS3DataBlockHeader_from_data(arg.data)
    /\ UNCHANGED call_others

\* no object exists; a header is about to be written and read back, or a
\* byte string is about to be read as a header
InitHeader ==
    /\ InitCommon
    /\ bxpd = BS3Reader_init("none", 0)
    /\ pc = [t \in Threads |-> "none"]
    /\ out_q = [r \in Protocols |-> "none"]
    /\ wire = {}
    /\ protocol_ids = <<>>
    /\ protocol_ref = <<>>
    /\ protocol_obj = <<>>
    /\ q_max = [q \in Queues |-> 0]
    /\ ret = <<>>
    /\ \/ \E h \in HeadersPassed : arg = [cls |-> "header", h |-> h]
       \/ \E d \in HeaderDataPassed : arg = [cls |-> "data", data |-> d]

NextHeader ==
    \/ header_round_trip
    \/ header_from_data

SpecHeader == InitHeader /\ [][NextHeader]_vars

\* C25: a frame header that is encoded and then decoded comes back with the
\* same total size, writer id, block index, time stamp and protocol code.
C25_HeaderRoundTrip ==
    (arg.cls = "header" /\ ret # <<>>) =>
        /\ ret.ok
        /\ ret.v = arg.h

\* the version field of the byte string passed
VersionPassed == arg.data[1]

\* C26: the frame header is 31 bytes on the wire: the field widths of the
\* layout sum to 31, which is the header-size constant, and a string of the
\* first 31 bytes of a well-formed frame is read as a header.
C26_HeaderLength31 ==
    /\ calcsize(BS3DataBlockHeader_signature) = 31
    /\ BS3DataBlockHeader_header_size = 31
    /\ (/\ arg.cls = "data" /\ ret # <<>>
        /\ Len(arg.data) = 31
        /\ arg.data = Slice(WireHeader(3, 1, "SORT", 40), 0, 31)) => ret.ok

\* C27: reading a byte string as a frame header fails exactly when the
\* string is shorter than 31 bytes or its version field is not 3.
C27_HeaderDecodeFailsExactly ==
    (arg.cls = "data" /\ ret # <<>>) =>
        (~ret.ok <=> (Len(arg.data) < 31 \/ VersionPassed # 3))

(***************************************************************************)
(* BS3BxpdDataBlock: payload and from_data.                                *)
(***************************************************************************)
\* `rval += ...` of two results: the first exception raised wins
Cat(a, b) == Then(a, LAMBDA x : Then(b, LAMBDA y : Ok(x \o y)))

\* the Python ints of a sequence of numbers
PyInts(s) == [i \in 1..Len(s) |-> PyInt(s[i])]

\* byte j (from 0) of the unsigned little-endian form of n < 2^31
ByteOf(n, j) == IF j >= 4 THEN 0 ELSE (n \div 256 ^ j) % 256

\* struct.pack('<%dX' % len(args), *args) for a field X of w >= 4 bytes: the
\* numbers of this model fit such a field
pack_array(w, args) ==
    Ok([k \in 1..w * Len(args) |-> ByteOf(args[(k - 1) \div w + 1], (k - 1) % w)])

\* struct.pack with a format that is no struct format: '<B%dQ' is passed
\* without the `% n`, and '%' is no format character
pack_bad_char(args) == Raise("struct.error")

\* BS3BxpdBlockHeader.payload
BS3BxpdBlockHeader_payload(block_type) ==
    pack(Tier2_signature, {},
         <<PyInt(BS3BxpdBlockHeader_version), PyInt(block_type)>>)

\* the body of the loop over anchan_lst in payload: the length of the chunk
\* as '<B', or as '<BQ' after 255, and the samples as '<%di'
anchan_payload(anchan) ==
    Cat(IF Len(anchan) < 256
        THEN pack(<<1>>, {}, <<PyInt(Len(anchan))>>)
        ELSE pack(<<1, 8>>, {}, <<PyInt(255), PyInt(Len(anchan))>>),
        pack_array(4, anchan))

RECURSIVE anchan_lst_payload(_)
anchan_lst_payload(lst) ==
    IF lst = <<>> THEN Ok(<<>>)
    ELSE Cat(anchan_payload(Head(lst)), anchan_lst_payload(Tail(lst)))

\* the loops over dichan_lst and evchan_lst: '<HQB' of each tuple
RECURSIVE edges_payload(_)
edges_payload(lst) ==
    IF lst = <<>> THEN Ok(<<>>)
    ELSE Cat(pack(<<2, 8, 1>>, {}, PyInts(Head(lst))), edges_payload(Tail(lst)))

\* BS3BxpdDataBlock.payload
BS3BxpdDataBlock_payload(blk) ==
    Cat(BS3BxpdBlockHeader_payload(blk.bxpd_h.block_type),
    Cat(pack(<<8, 8>>, {}, PyInts(blk.time_stamp)),
    Cat(pack_bad_char(<<PyInt(Len(blk.srate_lst))>> \o PyInts(blk.srate_lst)),
    Cat(anchan_lst_payload(blk.anchan_lst),
    Cat(pack(<<4>>, {}, <<PyInt(Len(blk.dichan_lst))>>),
    Cat(edges_payload(blk.dichan_lst),
    Cat(pack(<<4>>, {}, <<PyInt(Len(blk.evchan_lst))>>),
        edges_payload(blk.evchan_lst))))))))

\* the analog chunks passed: n samples of one value, n at and around the
\* lengths 0 and 255
ChunkLengths == {0, 1, 2, 254, 255, 256}

AnchansPassed ==
    {[i \in 1..n |-> s] : n \in ChunkLengths, s \in {0, 1, 300}}

\* the data blocks passed (block type 1)
BxpdBlocksPassed ==
    [bxpd_h     : {PyHdr(1)},
     time_stamp : {<<0, 1>>, <<7, 9>>},
     srate_lst  : {<<>>, <<5>>},
     anchan_lst : {<<>>, << <<>> >>, << <<1, 2>> >>, << <<1>>, <<2, 3>> >>},
     dichan_lst : {<<>>, << <<1, 2, 0>> >>},
     evchan_lst : {<<>>, << <<3, 4, 1>>, <<3, 5, 0>> >>}]

\* the length of an analog chunk as from_data reads it
WireAnchanLen(n) == IF n < 255 THEN U(n, 1) ELSE U(255, 1) \o U(n, 8)

RECURSIVE WireSeq(_, _)
WireSeq(s, w) == IF s = <<>> THEN <<>> ELSE U(Head(s), w) \o WireSeq(Tail(s), w)

RECURSIVE WireAnchans(_)
WireAnchans(lst) ==
    IF lst = <<>> THEN <<>>
    ELSE WireAnchanLen(Len(Head(lst))) \o WireSeq(Head(lst), 2)
         \o WireAnchans(Tail(lst))

RECURSIVE WireEdges(_)
WireEdges(lst) ==
    IF lst = <<>> THEN <<>>
    ELSE U(Head(lst)[1], 2) \o U(Head(lst)[2], 8) \o U(Head(lst)[3], 1)
         \o WireEdges(Tail(lst))

\* the bytes a writer sends after the tier 2 header for a data block, in the
\* layout from_data reads
WireBxpdData(blk) ==
    WireSeq(blk.time_stamp, 8)
    \o U(Len(blk.srate_lst), 1) \o WireSeq(blk.srate_lst, 8)
    \o U(Len(blk.anchan_lst), 2) \o WireAnchans(blk.anchan_lst)
    \o U(Len(blk.dichan_lst), 4) \o WireEdges(blk.dichan_lst)
    \o U(Len(blk.evchan_lst), 4) \o WireEdges(blk.evchan_lst)

\* one chunk written by the loop body of payload and read back by the loop
\* body of from_data
anchan_round_trip ==
    /\ arg # <<>> /\ ret = <<>>
    /\ arg.cls = "anchan"
    /\ \E enc \in {anchan_payload(arg.anchan)} :
          ret' = IF ~enc.ok THEN enc
                 ELSE LET dec == anchan_from_data(enc.v, 0)
                      IN  IF dec.ok THEN Ok(dec.v.values) ELSE dec
    /\ UNCHANGED call_others

\* BS3BxpdDataBlock.from_data(bxpd_h, blk.payload()[2:])
bxpd_data_round_trip ==
    /\ arg # <<>> /\ ret = <<>>
    /\ arg.cls = "block"
    /\ \E enc \in {BS3BxpdDataBlock_payload(arg.blk)} :
          ret' = IF ~enc.ok THEN enc
                 ELSE BS3BxpdDataBlock_from_data(arg.blk.bxpd_h,
                          Slice(enc.v, calcsize(Tier2_signature), Len(enc.v)))
    /\ UNCHANGED call_others

\* BS3BxpdDataBlock.from_data(bxpd_h, data) on the bytes of a writer
bxpd_data_from_data ==
    /\ arg # <<>> /\ ret = <<>>
    /\ arg.cls = "data"
    /\ ret' = BS3BxpdDataBlock_from_data(PyHdr(1), arg.data)
    /\ UNCHANGED call_others

InitBxpdData ==
    /\ InitCommon
    /\ bxpd = BS3Reader_init("none", 0)
    /\ pc = [t \in Threads |-> "none"]
    /\ out_q = [r \in Protocols |-> "none"]
    /\ wire = {}
    /\ protocol_ids = <<>>
    /\ protocol_ref = <<>>
    /\ protocol_obj = <<>>
    /\ q_max = [q \in Queues |-> 0]
    /\ ret = <<>>
    /\ \/ \E a \in AnchansPassed : arg = [cls |-> "anchan", anchan |-> a]
       \/ \E b \in BxpdBlocksPassed : arg = [cls |-> "block", blk |-> b]
       \/ \E b \in BxpdBlocksPassed :
             arg = [cls |-> "data", data |-> WireBxpdData(b), blk |-> b]

NextBxpdData ==
    \/ anchan_round_trip
    \/ bxpd_data_round_trip
    \/ bxpd_data_from_data

SpecBxpdData == InitBxpdData /\ [][NextBxpdData]_vars

\* from_data reads the bytes of a writer as the block the writer sent
WireBxpdDataRead ==
    (arg.cls = "data" /\ ret # <<>>) => ret.ok /\ ret.v = arg.blk

\* C28: an analog chunk of n < 255 samples is written with the one length
\* byte n, a chunk of n >= 255 samples with the byte 255 and n in 8 bytes,
\* and reading what was written gives n samples.
C28_ChunkLengthPrefix ==
    (arg.cls = "anchan" /\ ret # <<>>) =>
        LET n == Len(arg.anchan)
            enc == anchan_payload(arg.anchan)
        IN  /\ enc.ok
            /\ n < 255 => Slice(enc.v, 0, 1) = <<n>>
            /\ n >= 255 => Slice(enc.v, 0, 9) = <<255>> \o U(n, 8)
            /\ ret.ok
            /\ Len(ret.v) = n

\* C29: a BXPD data block that is encoded and then decoded, after the two
\* bytes of the tier 2 header, comes back with the same time stamps, sample
\* offsets, analog chunks, digital edges and event edges.
C29_BxpdDataRoundTrip ==
    (arg.cls = "block" /\ ret # <<>>) =>
        /\ ret.ok
        /\ ret.v.time_stamp = arg.blk.time_stamp
        /\ ret.v.srate_lst = arg.blk.srate_lst
        /\ ret.v.anchan_lst = arg.blk.anchan_lst
        /\ ret.v.dichan_lst = arg.blk.dichan_lst
        /\ ret.v.evchan_lst = arg.blk.evchan_lst

(***************************************************************************)
(* BS3SortSetupBlock written and read back: the classes of p_wave.py, and  *)
(* the classes of the same name of blockstream.py and p_sort.py, whose     *)
(* payload and from_data are the same text in both files.                  *)
(***************************************************************************)
\* a float32 value, by its 4 bytes
PyFloat(b) == [t |-> "float", b |-> b]

\* the number of columns of a 2-d array
Cols(m) == IF Len(m) = 0 THEN 0 ELSE Len(m[1])

\* m.astype(sp.float32).tostring() of a 2-d float32 array: row after row
tostring(m) ==
    [k \in 1..4 * Len(m) * Cols(m) |->
        m[((k - 1) \div (4 * Cols(m))) + 1][(((k - 1) \div 4) % Cols(m)) + 1][((k - 1) % 4) + 1]]

\* BS3SortBlockHeader.payload
BS3SortBlockHeader_payload(block_type) ==
    pack(Tier2_signature, {},
         <<PyInt(BS3SortBlockHeader_version), PyInt(block_type)>>)

\* p_wave.py, the body of the loop over the units of a group
sort_unit_payload(unit) ==
    Cat(pack(<<4>>, {}, <<PyInt(unit[1])>>),
    Cat(Ok(tostring(transpose(unit[2], Len(unit[2]), Cols(unit[2])))),
    Cat(Ok(tostring(transpose(unit[3], Len(unit[3]), Cols(unit[3])))),
        pack(<<4, 1, 2, 2>>, {},
             <<PyFloat(unit[4]), PyInt(unit[5]), PyInt(unit[6])>>))))

RECURSIVE sort_unit_lst_payload(_)
sort_unit_lst_payload(lst) ==
    IF lst = <<>> THEN Ok(<<>>)
    ELSE Cat(sort_unit_payload(Head(lst)), sort_unit_lst_payload(Tail(lst)))

\* p_wave.py, the loop over the groups
RECURSIVE sort_group_lst_payload(_)
sort_group_lst_payload(lst) ==
    IF lst = <<>> THEN Ok(<<>>)
    ELSE LET group == Head(lst)
         IN  Cat(pack(<<2, 2, 2, 2>>, {}, PyInts(SubSeq(group, 1, 4))),
             Cat(Ok(tostring(group[5])),
             Cat(pack(<<4>>, {}, <<PyInt(Len(group[6]))>>),
             Cat(sort_unit_lst_payload(group[6]),
                 sort_group_lst_payload(Tail(lst))))))

\* p_wave.py, BS3SortSetupBlock.payload
BS3SortSetupBlock_payload(blk) ==
    Cat(BS3SortBlockHeader_payload(blk.header.block_type),
    Cat(pack(<<2>>, {}, <<PyInt(Len(blk.group_lst))>>),
        sort_group_lst_payload(blk.group_lst)))

\* blockstream.py and p_sort.py, the body of the loop over the units
blockstream_sort_unit_payload(unit) ==
    Cat(Ok(tostring(transpose(unit[1], Len(unit[1]), Cols(unit[1])))),
    Cat(Ok(tostring(transpose(unit[2], Len(unit[2]), Cols(unit[2])))),
        pack(<<4, 2, 2>>, {},
             <<PyFloat(unit[3]), PyInt(unit[4]), PyInt(unit[5])>>)))

RECURSIVE blockstream_sort_unit_lst_payload(_)
blockstream_sort_unit_lst_payload(lst) ==
    IF lst = <<>> THEN Ok(<<>>)
    ELSE Cat(blockstream_sort_unit_payload(Head(lst)),
             blockstream_sort_unit_lst_payload(Tail(lst)))

\* blockstream.py and p_sort.py, the loop over the groups
RECURSIVE blockstream_sort_group_lst_payload(_)
blockstream_sort_group_lst_payload(lst) ==
    IF lst = <<>> THEN Ok(<<>>)
    ELSE LET group == Head(lst)
         IN  Cat(pack(<<2, 2, 2, 2>>, {}, PyInts(SubSeq(group, 1, 4))),
             Cat(Ok(tostring(group[5])),
             Cat(pack(<<2>>, {}, <<PyInt(Len(group[6]))>>),
             Cat(blockstream_sort_unit_lst_payload(group[6]),
                 blockstream_sort_group_lst_payload(Tail(lst))))))

\* blockstream.py and p_sort.py, BS3SortSetupBlock.payload
blockstream_BS3SortSetupBlock_payload(blk) ==
    Cat(BS3SortBlockHeader_payload(blk.header.block_type),
    Cat(pack(<<2>>, {}, <<PyInt(Len(blk.group_lst))>>),
        blockstream_sort_group_lst_payload(blk.group_lst)))

\* blockstream.py and p_sort.py, the loop over the n groups of from_data:
\* the covariance is unpacked to a tuple, and sp.frombuffer takes no tuple
blockstream_sort_groups_from_data(data, at, n) ==
    IF n = 0 THEN Ok(<<>>)
    ELSE LET h == unpack(<<2, 2, 2, 2>>, Slice(data, at, at + 8))
         IN  IF ~h.ok THEN h
             ELSE LET tf_nc == LE(h.v[3]) * LE(h.v[2])
                      cov_buf == unpack_array(4, tf_nc * tf_nc,
                                     Slice(data, at + 8, at + 8 + tf_nc * tf_nc * 4))
                  IN  IF ~cov_buf.ok THEN cov_buf ELSE Raise("AttributeError")

\* blockstream.py and p_sort.py, BS3SortSetupBlock.from_data(blk_h, sort_h,
\* data) for a str `data`: the count '<H' is read from data[0:1]
blockstream_BS3SortSetupBlock_from_data(blk_h, sort_h, data) ==
    LET ngroup == unpack(<<2>>, Slice(data, 0, 1))
    IN  IF ~ngroup.ok THEN ngroup
        ELSE LET group_lst == blockstream_sort_groups_from_data(data, 1, LE(ngroup.v[1]))
             IN  IF ~group_lst.ok THEN group_lst
                 ELSE Ok([sort_h |-> sort_h, group_lst |-> group_lst.v])

\* the float32 values 1.0 and 2.0
Float1 == <<0, 0, 128, 63>>
Float2 == <<0, 0, 0, 64>>

\* a filter or template as from_data gives it: nc rows of tf samples
Filt(nc, tf) ==
    [i \in 1..nc |-> [j \in 1..tf |-> IF (i + j) % 2 = 0 THEN Float1 ELSE Float2]]

\* a covariance matrix of n rows and columns
Cov(n) == [i \in 1..n |-> [j \in 1..n |-> IF i = j THEN Float1 ELSE Float2]]

\* the unit lists of a group of p_wave.py: no unit, one, two; a unit is
\* (unit_idx, filter, template, snr, active, user1, user2)
WaveUnitsPassed(nc, tf) ==
    LET u(i) == <<i, Filt(nc, tf), Filt(nc, tf), Float1, 1, 7, 8>>
    IN  {<<>>, <<u(0)>>, <<u(0), u(1)>>}

\* the unit lists of a group of blockstream.py and p_sort.py; a unit is
\* (filter, template, snr, user1, user2)
BlockstreamUnitsPassed(nc, tf) ==
    LET u(i) == <<Filt(nc, tf), Filt(nc, tf), Float1, 7, 8 + i>>
    IN  {<<>>, <<u(0)>>, <<u(0), u(1)>>}

\* the shapes (nc, tf) of the groups passed
ShapesPassed == {<<1, 1>>, <<1, 2>>}

\* the groups passed: (grp_idx, nc, tf, cutleft, cov, unit_lst)
SortGroupsPassed(cls) ==
    UNION {{<<g, s[1], s[2], cl, Cov(s[2] * s[1]), ul>> :
               g \in {0, 1}, cl \in {0, 3},
               ul \in IF cls = "p_wave" THEN WaveUnitsPassed(s[1], s[2])
                      ELSE BlockstreamUnitsPassed(s[1], s[2])} :
           s \in ShapesPassed}

\* the setup blocks passed (block type 0): no group, one group, and one
\* group followed by a group without units
SortSetupsPassed(cls) ==
    {[header |-> PyHdr(0), group_lst |-> gl] :
        gl \in {<<>>} \cup {<<g>> : g \in SortGroupsPassed(cls)}
                      \cup {<<g, <<1, 1, 1, 0, Cov(1), <<>> >> >> :
                               g \in SortGroupsPassed(cls)}}

\* p_wave.py: BS3SortSetupBlock.from_data(header, blk.payload()[2:])
sort_setup_round_trip ==
    /\ arg # <<>> /\ ret = <<>>
    /\ arg.cls = "p_wave"
    /\ \E enc \in {BS3SortSetupBlock_payload(arg.blk)} :
          ret' = IF ~enc.ok THEN enc
                 ELSE BS3SortSetupBlock_from_data(arg.blk.header,
                          PyStr(Slice(enc.v, calcsize(Tier2_signature), Len(enc.v))))
    /\ UNCHANGED call_others

\* blockstream.py and p_sort.py:
\* BS3SortSetupBlock.from_data(blk_h, sort_h, blk.payload()[2:])
blockstream_sort_setup_round_trip ==
    /\ arg # <<>> /\ ret = <<>>
    /\ arg.cls = "blockstream"
    /\ \E enc \in {blockstream_BS3SortSetupBlock_payload(arg.blk)} :
          ret' = IF ~enc.ok THEN enc
                 ELSE blockstream_BS3SortSetupBlock_from_data(<<>>, arg.blk.header,
                          Slice(enc.v, calcsize(Tier2_signature), Len(enc.v)))
    /\ UNCHANGED call_others

InitSortSetup ==
    /\ InitCommon
    /\ bxpd = BS3Reader_init("none", 0)
    /\ pc = [t \in Threads |-> "none"]
    /\ out_q = [r \in Protocols |-> "none"]
    /\ wire = {}
    /\ protocol_ids = <<>>
    /\ protocol_ref = <<>>
    /\ protocol_obj = <<>>
    /\ q_max = [q \in Queues |-> 0]
    /\ ret = <<>>
    /\ \E cls \in {"p_wave", "blockstream"} :
          \E b \in SortSetupsPassed(cls) : arg = [cls |-> cls, blk |-> b]

NextSortSetup ==
    \/ sort_setup_round_trip
    \/ blockstream_sort_setup_round_trip

SpecSortSetup == InitSortSetup /\ [][NextSortSetup]_vars

\* C30: a SORT setup block that is encoded and then decoded comes back with
\* the same groups, each with its channel count, waveform length, left cut,
\* covariance matrix and units, every field of a unit at its place.
C30_SortSetupRoundTrip ==
    (arg # <<>> /\ ret # <<>>) =>
        /\ ret.ok
        /\ ret.v.group_lst = arg.blk.group_lst

(***************************************************************************)
(* BS3SortDataBlock written and read back: the class of p_wave.py          *)
(* ('<HIQHHH', 20 bytes an event) and the class of the same name of        *)
(* blockstream.py and p_sort.py ('<HHQHHH', 18 bytes an event).            *)
(***************************************************************************)
\* the loop over event_lst in payload: pack(signature, *ev) of each event
RECURSIVE sort_event_lst_payload(_, _)
sort_event_lst_payload(signature, lst) ==
    IF lst = <<>> THEN Ok(<<>>)
    ELSE Cat(pack(signature, {}, PyInts(Head(lst))),
             sort_event_lst_payload(signature, Tail(lst)))

\* p_wave.py, BS3SortDataBlock.payload
BS3SortDataBlock_payload(blk) ==
    Cat(BS3SortBlockHeader_payload(blk.header.block_type),
    Cat(pack(<<4>>, {}, <<PyInt(Len(blk.event_lst))>>),
        sort_event_lst_payload(<<2, 4, 8, 2, 2, 2>>, blk.event_lst)))

\* blockstream.py and p_sort.py, BS3SortDataBlock.payload
blockstream_BS3SortDataBlock_payload(blk) ==
    Cat(BS3SortBlockHeader_payload(blk.header.block_type),
    Cat(pack(<<4>>, {}, <<PyInt(Len(blk.event_lst))>>),
        sort_event_lst_payload(<<2, 2, 8, 2, 2, 2>>, blk.event_lst)))

\* blockstream.py and p_sort.py, the loop over the n events of from_data
RECURSIVE blockstream_sort_events_from_data(_, _, _, _)
blockstream_sort_events_from_data(data, at, n, lst) ==
    IF n = 0 THEN Ok(lst)
    ELSE Then(unpack(<<2, 2, 8, 2, 2, 2>>, Slice(data, at, at + 18)), LAMBDA ev :
              blockstream_sort_events_from_data(data, at + 18, n - 1,
                  Append(lst, [i \in 1..6 |-> LE(ev[i])])))

\* blockstream.py and p_sort.py, BS3SortDataBlock.from_data(sort_h, data)
\* for a str `data`
blockstream_BS3SortDataBlock_from_data(sort_h, data) ==
    Then(unpack_uint(data, 0, 4), LAMBDA nevent :
    Then(blockstream_sort_events_from_data(data, 4, nevent, <<>>), LAMBDA event_lst :
    Ok([sort_h |-> sort_h, event_lst |-> event_lst])))

\* the events passed: (group_nr, unit_nr, time_val, event_type, user1,
\* user2), the unit number within and beyond 16 bits
SortEventsPassed ==
    {<<g, u, 2, 3, 4, 5>> : g \in {0, 1}, u \in {0, 1, 65536}}

\* the data blocks passed (block type 1): no event, one, two
SortDatasPassed ==
    {[header |-> PyHdr(1), event_lst |-> el] :
        el \in {<<>>} \cup {<<e>> : e \in SortEventsPassed}
                      \cup {<<e, f>> : e \in SortEventsPassed, f \in SortEventsPassed}}

\* p_wave.py: BS3SortDataBlock.from_data(header, blk.payload()[2:])
sort_data_round_trip ==
    /\ arg # <<>> /\ ret = <<>>
    /\ arg.cls = "p_wave"
    /\ \E enc \in {BS3SortDataBlock_payload(arg.blk)} :
          ret' = IF ~enc.ok THEN enc
                 ELSE BS3SortDataBlock_from_data(arg.blk.header,
                          PyStr(Slice(enc.v, calcsize(Tier2_signature), Len(enc.v))))
    /\ UNCHANGED call_others

\* blockstream.py and p_sort.py:
\* BS3SortDataBlock.from_data(sort_h, blk.payload()[2:])
blockstream_sort_data_round_trip ==
    /\ arg # <<>> /\ ret = <<>>
    /\ arg.cls = "blockstream"
    /\ \E enc \in {blockstream_BS3SortDataBlock_payload(arg.blk)} :
          ret' = IF ~enc.ok THEN enc
                 ELSE blockstream_BS3SortDataBlock_from_data(arg.blk.header,
                          Slice(enc.v, calcsize(Tier2_signature), Len(enc.v)))
    /\ UNCHANGED call_others

InitSortData ==
    /\ InitCommon
    /\ bxpd = BS3Reader_init("none", 0)
    /\ pc = [t \in Threads |-> "none"]
    /\ out_q = [r \in Protocols |-> "none"]
    /\ wire = {}
    /\ protocol_ids = <<>>
    /\ protocol_ref = <<>>
    /\ protocol_obj = <<>>
    /\ q_max = [q \in Queues |-> 0]
    /\ ret = <<>>
    /\ \E cls \in {"p_wave", "blockstream"} :
          \E b \in SortDatasPassed : arg = [cls |-> cls, blk |-> b]

NextSortData ==
    \/ sort_data_round_trip
    \/ blockstream_sort_data_round_trip

SpecSortData == InitSortData /\ [][NextSortData]_vars

\* the payload of the block under test, as its class writes it
SortDataWritten ==
    IF arg.cls = "p_wave" THEN BS3SortDataBlock_payload(arg.blk)
    ELSE blockstream_BS3SortDataBlock_payload(arg.blk)

\* C31: a SORT data block of n events is encoded, after the tier 2 header,
\* as n in 32 bits and 20 bytes for each event, and decoding what was
\* encoded gives the same events in the same order.
C31_SortDataRoundTrip ==
    (arg # <<>> /\ ret # <<>>) =>
        /\ SortDataWritten.ok
        /\ Len(SortDataWritten.v) = 2 + 4 + 20 * Len(arg.blk.event_lst)
        /\ Slice(SortDataWritten.v, 2, 6) = U(Len(arg.blk.event_lst), 4)
        /\ ret.ok
        /\ ret.v.event_lst = arg.blk.event_lst

(***************************************************************************)
(* POSI data and steer blocks as written, and as the reader decodes them.  *)
(***************************************************************************)
\* BS3PosiBlockHeader.payload
BS3PosiBlockHeader_payload(block_type) ==
    pack(Tier2_signature, {},
         <<PyInt(BS3PosiBlockHeader_version), PyInt(block_type)>>)

\* the loop over grp_lst in payload: '<HQ' of each pair
RECURSIVE posi_grp_lst_payload(_)
posi_grp_lst_payload(lst) ==
    IF lst = <<>> THEN Ok(<<>>)
    ELSE Cat(pack(<<2, 8>>, {}, PyInts(Head(lst))), posi_grp_lst_payload(Tail(lst)))

\* BS3PosiDataBlock(grp_lst).payload(): the header is BS3PosiBlockHeader(1)
BS3PosiDataBlock_payload(grp_lst) ==
    Cat(BS3PosiBlockHeader_payload(1),
    Cat(pack(<<2>>, {}, <<PyInt(Len(grp_lst))>>), posi_grp_lst_payload(grp_lst)))

\* BS3PosiSteerBlock(grp_lst).payload(): the header is BS3PosiBlockHeader(2)
BS3PosiSteerBlock_payload(grp_lst) ==
    Cat(BS3PosiBlockHeader_payload(2),
    Cat(pack(<<2>>, {}, <<PyInt(Len(grp_lst))>>), posi_grp_lst_payload(grp_lst)))

\* the (group, position) list of the frames F_posi_data and F_posi_steer
PosiPairsSent == << <<3, 9>> >>

\* the two payloads of one list differ in the block type byte and nowhere
\* else
PosiWireIdentical(grp_lst) ==
    LET d == BS3PosiDataBlock_payload(grp_lst)
        s == BS3PosiSteerBlock_payload(grp_lst)
    IN  /\ d.ok /\ s.ok
        /\ Len(d.v) = Len(s.v)
        /\ d.v[2] = 1 /\ s.v[2] = 2
        /\ \A i \in 1..Len(d.v) : i # 2 => d.v[i] = s.v[i]

\* C32: the data block and the steer block of one (group, position) list
\* are the same bytes but for the block type, 1 and 2, and the reader
\* decodes such a frame through the registry to a block of that type with
\* that list.
C32_PosiDataSteerDecoded ==
    \A btp \in {1, 2} :
        LET frame == IF btp = 1 THEN F_posi_data ELSE F_posi_steer
            written == IF btp = 1 THEN BS3PosiDataBlock_payload(PosiPairsSent)
                       ELSE BS3PosiSteerBlock_payload(PosiPairsSent)
        IN  (pc["POSI"] = "handle" /\ car_data["POSI"] = frame) =>
                /\ PosiWireIdentical(PosiPairsSent)
                /\ Slice(frame, BS3DataBlockHeader_len, Len(frame)) = written.v
                /\ HandleBlock("POSI", frame).exc = ""
                /\ HandleBlock("POSI", frame).put =
                       <<BS3BaseBlock("POSI", PyHdr(btp), <<>>, PosiPairsSent)>>

(***************************************************************************)
(* One frame handled by a reader, the total size of its header apart from  *)
(* the number of bytes readBlock delivers.                                 *)
(***************************************************************************)
\* the tier 2 parts of the frames: POSI setup blocks of no, one and two
\* groups and a POSI block of the unknown type 5; SORT setup and data blocks
\* without entries, a SORT data block of one event and a SORT block of the
\* unknown type 7
Tier2Passed(r) ==
    IF r = "POSI"
    THEN {<<1, 0>> \o U(0, 2), <<1, 0>> \o U(1, 2) \o U(3, 2),
          <<1, 0>> \o U(2, 2) \o U(3, 2) \o U(4, 2), <<1, 5>> \o U(0, 2)}
    ELSE {<<1, 0>> \o U(0, 2), <<1, 1>> \o U(0, 4),
          <<1, 1>> \o U(1, 4) \o WireSortEvent, <<1, 7>> \o U(0, 4)}

\* the total sizes the headers of the frames carry, next to the true one
TotalSizesPassed == {0, 10, 31, 38, 40, 42, 100}

\* the frames delivered to reader r
FramesPassed(r) ==
    {WireHeader(BS3DataBlockHeader_version, BS3DataBlockHeader_type_code, r, size)
        \o tier2 :
     tier2 \in Tier2Passed(r),
     size \in TotalSizesPassed \cup {BS3DataBlockHeader_len + Len(t) : t \in Tier2Passed(r)}}

\* the body of `if b_got_block:` of reader arg.r for the frame arg.data
frame_handle ==
    /\ arg # <<>> /\ ret = <<>>
    /\ ret' = HandleBlock(arg.r, arg.data)
    /\ UNCHANGED call_others

InitFrame ==
    /\ InitCommon
    /\ bxpd = BS3Reader_init("none", 0)
    /\ pc = [t \in Threads |-> "none"]
    /\ out_q = [r \in Protocols |-> "none"]
    /\ wire = {}
    /\ protocol_ids = <<>>
    /\ protocol_ref = <<>>
    /\ protocol_obj = <<>>
    /\ q_max = [q \in Queues |-> 0]
    /\ ret = <<>>
    /\ \E r \in Protocols : \E f \in FramesPassed(r) : arg = [r |-> r, data |-> f]

NextFrame == frame_handle

SpecFrame == InitFrame /\ [][NextFrame]_vars

\* the frame header of the frame under test, as the reader decodes it
HeaderPassed ==
    BS3DataBlockHeader_from_data(Slice(arg.data, 0, BS3DataBlockHeader_len))

\* C33: a frame header that decodes has a total size not below its header
\* size, and what the reader does with the frame is what it does with the
\* first total-size bytes of it.
C33_TotalSizeBoundsFrame ==
    (arg # <<>> /\ ret # <<>> /\ HeaderPassed.ok) =>
        /\ HeaderPassed.v.block_size >= LE(Slice(arg.data, 5, 7))
        /\ ret = HandleBlock(arg.r, Slice(arg.data, 0, HeaderPassed.v.block_size))

\* ---------------------------------------------------------------------------
\* The table of the multiplexer after its readers are started
\* ---------------------------------------------------------------------------

\* C34: once the multiplexer has started its readers (bs_reader.py:276-281),
\* the entry of every configured protocol in its table holds, in slot IDX_THR,
\* the reader thread built for that protocol
C34_TableHoldsReaderPerProtocol ==
    is_initialised["multi"] =>
        \A i \in 1..Len(protocol_ids) :
            protocol_at(protocol_ids[i], IDX_THR) = protocol_ids[i]

\* ---------------------------------------------------------------------------
\* BS3Reader: a request for a group the setup block does not have
\* ---------------------------------------------------------------------------

\* the worker is about to take a request whose group index is not one of
\* the groups of the current setup block
BadGroupRequest ==
    /\ bxpd.pc = "input"
    /\ bxpd.input_q # <<>>
    /\ Head(bxpd.input_q)[2] >= Len(bxpd.setup_block[1].group_lst)

\* C36: when the BS3Reader worker handles a request for a group the setup
\* block does not have (blockstream.py:780-792), it registers nothing, puts
\* one None on the queue of that request and on no other queue, and calls
\* task_done() for the request
C36_BadGroupNoneToRequester ==
    [][(BadGroupRequest /\ bxpd'.pc # "input") =>
          /\ bxpd'.listeners = bxpd.listeners
          /\ q_log' = [q_log EXCEPT ![Head(bxpd.input_q)[1]] = Append(@, NoneItem)]
          /\ bxpd'.unfinished = bxpd.unfinished - 1]_vars

(***************************************************************************)
(* BS3Reader with stop(), two setup blocks and a data block.               *)
(***************************************************************************)
\* a setup block of two sample rates, the analog channels 0 (sample rate
\* index 0) and 1 (sample rate index 1) and one group "" of the channel ch
WireBxpdSetupOf(ch) ==
    U(2, 1) \o U(0, 8) \o U(0, 8)
    \o U(2, 2) \o U(0, 2) \o U(0, 1) \o U(0, 2) \o U(1, 2) \o U(1, 1) \o U(0, 2)
    \o U(0, 2) \o U(0, 2)
    \o U(1, 2) \o U(0, 2) \o U(1, 2) \o U(ch, 2)

\* a data block of the sample rate offsets 5 and 6 and the analog chunks
\* (7,) and (8,)
WireBxpdDataOf ==
    U(0, 8) \o U(1, 8) \o U(2, 1) \o U(5, 8) \o U(6, 8)
    \o U(2, 2) \o U(1, 1) \o U(7, 2) \o U(1, 1) \o U(8, 2)
    \o U(0, 4) \o U(0, 4)

F_bxpd_setup_a == WireBxpdHeader(<<66, 88, 80, 68>>) \o <<3, 0>> \o WireBxpdSetupOf(0)
F_bxpd_setup_b == WireBxpdHeader(<<66, 88, 80, 68>>) \o <<3, 0>> \o WireBxpdSetupOf(1)
F_bxpd_data == WireBxpdHeader(<<66, 88, 80, 68>>) \o <<3, 1>> \o WireBxpdDataOf

FramesBxpdStop == {F_bxpd_setup_a, F_bxpd_setup_b, F_bxpd_data}

\* the maxsize of the Queue a listener passes to BS3Reader.add_listener
BxpdQueueSizes == {0, 2}

\* BS3Reader.stop(): self._serving = False; the wait on _is_shutdown that
\* follows changes nothing
B_stop ==
    /\ bxpd.pc # "none"
    /\ bxpd.serving
    /\ bxpd' = [bxpd EXCEPT !.serving = FALSE]
    /\ UNCHANGED <<bxpd_others, handles, borrowed, q_log, n_frames, n_adds>>

\* `while len(self._listeners) > 0:` of stop_blockstream: popitem() takes an
\* entry out, here the first, and put_nowait(None) raises Full on a full
\* queue  [exc, listeners: _listeners afterwards, log: the queues afterwards]
RECURSIVE PopAll(_, _)
PopAll(lst, log) ==
    IF lst = <<>> THEN [exc |-> "", listeners |-> <<>>, log |-> log]
    ELSE LET q == Head(lst).q
         IN  IF q_max[q] > 0 /\ Len(log[q]) - q_taken[q] >= q_max[q]
             THEN [exc |-> "Full", listeners |-> Tail(lst), log |-> log]
             ELSE PopAll(Tail(lst), [log EXCEPT ![q] = Append(@, NoneItem)])

\* `while self._serving:` is left: stop_blockstream() and
\* self._is_shutdown.set(); finalizeAll() closes every handle of the process
B_exit ==
    /\ bxpd.pc = "loop"
    /\ ~bxpd.serving
    /\ handles' = IF bxpd.blkstr THEN {} ELSE handles
    /\ \E h \in {PopAll(bxpd.listeners, q_log)} :
          /\ q_log' = h.log
          /\ bxpd' = IF h.exc # ""
                     THEN [bxpd EXCEPT !.pc = "crashed", !.crash = h.exc,
                                       !.reader_id = 0, !.listeners = h.listeners]
                     ELSE [bxpd EXCEPT !.pc = "done", !.reader_id = 0,
                                       !.listeners = h.listeners,
                                       !.is_shutdown = TRUE]
    /\ UNCHANGED <<bxpd_others, borrowed, n_frames, n_adds>>

\* BS3Reader(poll_timeout), and the queues the listeners will pass
InitBxpdStop ==
    /\ InitCommon
    /\ NoCall
    /\ \E t \in PollTimeouts : bxpd = BS3Reader_init("new", t)
    /\ pc = [t \in Threads |-> "none"]
    /\ out_q = [r \in Protocols |-> "none"]
    /\ wire = FramesBxpdStop
    /\ protocol_ids = <<>>
    /\ protocol_ref = <<>>
    /\ protocol_obj = <<>>
    /\ \E n \in BxpdQueueSizes :
          q_max = [q \in Queues |-> IF q = "L1" THEN n ELSE 0]

NextBxpdStop ==
    \/ NextBxpd
    \/ B_stop
    \/ B_exit

SpecBxpdStop == InitBxpdStop /\ [][NextBxpdStop]_vars

\* the number of None among the items put on queue q
NoneCount(log, q) == Cardinality({k \in 1..Len(log[q]) : log[q][k] = NoneItem})

\* C35: when the BS3Reader worker leaves its loop after stop()
\* (blockstream.py:850-854, 719-730), the queue of every listener registered
\* then ends with a None, holds one None for each of its registrations and
\* no other, and the registry is empty afterwards
C35_StopPutsOneNone ==
    [][(bxpd.pc = "loop" /\ bxpd'.pc # "loop" /\ ~bxpd.serving) =>
          /\ bxpd'.listeners = <<>>
          /\ \A i \in 1..Len(bxpd.listeners) :
                LET q == bxpd.listeners[i].q
                IN  /\ q_log'[q] # <<>>
                    /\ q_log'[q][Len(q_log'[q])] = NoneItem
                    /\ NoneCount(q_log', q) =
                          Cardinality({j \in 1..Len(bxpd.listeners) :
                                          bxpd.listeners[j].q = q})]_vars

\* the tuple of the data block sent, built with the channel list and the
\* sample rate index the current setup block gives for group 0
NewestTuple ==
    LET d   == HandleBxpd(F_bxpd_data).data
        g   == bxpd.setup_block[1].group_lst[1][4]
        sri == bxpd.setup_block[1].anchan_lst[g[1] + 1][2]
    IN  this_blk(d[1], d[2], g, sri)

\* C37: every tuple the BS3Reader worker puts on the queue of a listener
\* (blockstream.py:831-837) is built with the channel list and the sample
\* rate index that the current, newest setup block gives for the group of
\* the listener; every listener here is one of group 0
C37_TuplesFollowNewestSetup ==
    [][\A q \in ListenerQueues :
          \A k \in (Len(q_log[q]) + 1)..Len(q_log'[q]) :
              q_log'[q][k].kind = "tuple" => q_log'[q][k] = NewestTuple]_vars

\* BS3Reader(poll_timeout) with a poll that times out, listeners with
\* unbounded queues and a writer that sends setup blocks only
InitBxpdCall ==
    /\ InitCommon
    /\ NoCall
    /\ \E t \in PollTimeouts : t >= 0 /\ bxpd = BS3Reader_init("new", t)
    /\ pc = [t \in Threads |-> "none"]
    /\ out_q = [r \in Protocols |-> "none"]
    /\ wire = {F_bxpd_setup_a}
    /\ protocol_ids = <<>>
    /\ protocol_ref = <<>>
    /\ protocol_obj = <<>>
    /\ q_max = [q \in Queues |-> 0]

SpecBxpdCall == InitBxpdCall /\ [][NextBxpdStop]_vars

\* the scheduler runs the BS3Reader worker and the caller of add_listener
\* whenever they can take a step; no frame has to arrive and stop() need not
\* be called
FairBxpdCall ==
    /\ SpecBxpdCall
    /\ WF_vars(B_start \/ B_run \/ B_exit)
    /\ WF_vars(B_add_join \/ B_add_put \/ B_add_return)

\* an add_listener call has passed the test of _is_initialised and has not
\* returned
CallPending == bxpd.call # <<>>

\* C38: with the worker scheduled fairly and polls that time out, every
\* add_listener call on a BS3Reader that has passed the initialised test
\* returns in the end, whether or not the worker was stopped or has ended in
\* the meantime
C38_AddListenerReturns == CallPending ~> ~CallPending

\* ---------------------------------------------------------------------------
\* What the multiplexer puts on the queues of its listeners
\* ---------------------------------------------------------------------------

\* C39: the first item on the queue of a listener of the multiplexer is the
\* integer id of its registration, and every later item is a decoded block
\* (or the id of a further registration of the same queue): no None and no
\* (protocol, reader id) tuple is ever put on it
C39_ListenersGetIdThenBlocks ==
    \A q \in ListenerQueues :
        q_log[q] # <<>> =>
            /\ q_log[q][1].kind = "int"
            /\ \A k \in 2..Len(q_log[q]) : q_log[q][k].kind \in {"block", "int"}

\* ---------------------------------------------------------------------------
\* The transport handles when one reader is stopped
\* ---------------------------------------------------------------------------

\* BS3SingleProtocolReader('POSI', Q) and BS3SingleProtocolReader('SORT', Q):
\* two readers of one process, on one unbounded queue
InitPair ==
    /\ InitCommon
    /\ NoCall
    /\ bxpd = BS3Reader_init("none", 0)
    /\ pc = [t \in Threads |-> IF t \in Protocols THEN "new" ELSE "none"]
    /\ out_q = [r \in Protocols |-> "Q"]
    /\ wire = {F_sort_data1}
    /\ protocol_ids = <<>>
    /\ protocol_ref = <<>>
    /\ protocol_obj = <<>>
    /\ q_max = [q \in Queues |-> 0]

SpecPair == InitPair /\ [][NextSingle]_vars

\* C40: when a single-protocol reader runs stop_blockstream()
\* (bs_reader.py:123-131), its own transport handle is closed and the
\* handles of the other readers of the process stay open
C40_StopReleasesOwnHandleOnly ==
    [][\A r \in Protocols :
          (pc[r] = "stop_bs" /\ pc'[r] # "stop_bs") =>
              handles' = handles \ {Handle(r)}]_vars

=============================================================================
